---- MODULE Spec2Model ----
(***************************************************************************)
(* Price / rate resolution engine of foxreport: the expiring server cache, *)
(* the retrying fetch, and the batch price handlers.                       *)
(*                                                                         *)
(* The clock `now` is Date.now() counted in whole seconds (30 days of      *)
(* milliseconds exceed the integers of the checker); the timestamps of    *)
(* price requests are in milliseconds.  Strings that the code case-folds   *)
(* (token addresses) are sequences of one-character strings, so that       *)
(* toLowerCase is computed and not assumed.  A value of type  T | null  is *)
(* a sequence of length at most one: <<>> is null, <<v>> is the value v.   *)
(***************************************************************************)
EXTENDS Integers, Sequences, FiniteSets, TLC

(***************************************************************************)
(* Bounds of the model.                                                    *)
(***************************************************************************)
\* the clock is observed up to MaxDrift seconds after each of the
\* instants of ClockMinutes
MaxDrift == 1
\* the longest request list served from a cold cache
MaxJobs == 7
\* the longest request list in the runs where a request is repeated
MaxLen == 2
\* the number of GET /api/fx-rates requests of a run
MaxFxRequests == 2
\* the number of POST /api/fx-rates/historical requests of a run
MaxFxPosts == 2
\* the number of FX requests of a run where requests overlap
MaxFxRace == 3
\* the longest price series a provider returns to the locator
MaxPoints == 2
\* the longest list of transfers given to the P&L engine
MaxTxs == 2
\* the longest token list of two requests that overlap
MaxOverlapTokens == 1

(***************************************************************************)
(* Optional values.                                                        *)
(***************************************************************************)
Null == <<>>
Some(v) == <<v>>
IsNull(o) == o = <<>>
Val(o) == o[1]

Abs(x) == IF x < 0 THEN 0 - x ELSE x

(***************************************************************************)
(* Strings and the cache keys built from them.                             *)
(***************************************************************************)
toLowerCaseChar(c) ==
  CASE c = "A" -> "a" [] c = "B" -> "b" [] c = "C" -> "c"
    [] c = "D" -> "d" [] c = "E" -> "e" [] c = "F" -> "f"
    [] c = "X" -> "x" [] OTHER -> c

toLowerCase(s) == [i \in DOMAIN s |-> toLowerCaseChar(s[i])]

\* stand-ins for 0x6b17...1d0f (DAI, in COMMON_TOKENS) in two spellings and
\* for a contract address that is in no table
AddrDai == <<"0", "x", "6", "b">>
AddrDaiMixed == <<"0", "X", "6", "B">>
AddrOther == <<"0", "x", "9", "f">>
Addresses == {AddrDai, AddrDaiMixed, AddrOther}

Ethereum == 1
Arbitrum == 42161
ChainIds == {Ethereum, Arbitrum}

\* serverCacheKeys.tokenPrice: `price:${address.toLowerCase()}:${chainId}`
tokenPrice(address, chainId) == <<"price", toLowerCase(address), chainId>>

\* serverCacheKeys.historicalPrice:
\* `historical:${address.toLowerCase()}:${chainId}:${timestamp}`
historicalPrice(address, chainId, timestamp) ==
  <<"historical", toLowerCase(address), chainId, timestamp>>

(***************************************************************************)
(* State.                                                                  *)
(***************************************************************************)
VARIABLES
  now,      \* Date.now()
  cache,    \* ServerCache.cache: key -> [data, timestamp, ttl]
  lastSet,  \* history: key -> the arguments and time of the latest set(key)
            \*          not followed by delete(key) or clear()
  lastOp,   \* history: the latest cache call and what it returned
  job,      \* one fetchCoinGeckoPrice call followed step by step
  located,  \* the latest fetchHistoricalCoinGeckoPrice call: its arguments,
            \* what its requests did and what it returned
  \* a POST handler of /api/prices or /api/prices/historical
  hpc,            \* "idle", "group" (awaiting allSettled) or "delay"
  req,            \* the request being served
  priceMap,       \* priceMap: response key -> price
  tokensToFetch,  \* tokensToFetch / requestsToFetch
  loopIndex,      \* the loop variable i of the batching loop
  pending,        \* positions in tokensToFetch of the jobs not yet settled
  attempts,       \* pending position -> the attempt its fetchWithRetry is at
  settled,        \* history: position -> what its job's fetch yielded
  groups,         \* history: the groups started, as sets of positions
  delays,         \* history: the pacing sleeps, in milliseconds
  responseBody,   \* the body of the latest response
  history,        \* history: the requests served so far, with their answers
  \* the handlers of /api/fx-rates and /api/fx-rates/historical
  fx,             \* handler instance -> where it is and its local variables
  fxHistory,      \* history: the FX requests answered, with their answers
  \* the functions that run in the browser
  pnl,            \* the latest run of the P&L engine: its inputs and results
  clientCall,     \* the latest call of a client function: how its request
                  \* ended and what it returned
  \* two runs of the handler of POST /api/prices that may overlap
  serving,        \* handler instance -> where it is and its local variables
  fetches         \* history: the fetchCoinGeckoPrice calls started

cacheVars == <<now, cache, lastSet, lastOp>>
jobVars == <<job, located>>
handlerVars == <<hpc, req, priceMap, tokensToFetch, loopIndex, pending,
                 attempts, settled, groups, delays, responseBody, history>>
fxVars == <<fx, fxHistory>>
clientVars == <<pnl, clientCall>>
overlapVars == <<serving, fetches>>
vars == <<cacheVars, jobVars, handlerVars, fxVars, clientVars, overlapVars>>

NoOp == [op |-> "none", key |-> <<>>, result |-> Null, at |-> 0]

(***************************************************************************)
(* ServerCache                                                             *)
(***************************************************************************)
\* a minute of the clock, ttlMinutes * 60 * 1000 ms
Minute == 60
\* a minute of a price timestamp
MinuteMs == 60 * 1000

\* the entry stored by set(key, data, ttlMinutes) at time t
CacheEntry(data, t, ttlMinutes) ==
  [data |-> data, timestamp |-> t, ttl |-> ttlMinutes * Minute]

\* isExpired with the comparison off by one: an entry dies at its TTL
isExpired_AtTtl(entry, t) == t - entry.timestamp >= entry.ttl

\* now - entry.timestamp > entry.ttl
isExpired(entry, t) == t - entry.timestamp > entry.ttl

\* the store after set(key, data, ttlMinutes) at time t
cacheSet(c, key, data, ttlMinutes, t) ==
  [k \in DOMAIN c \cup {key} |->
     IF k = key THEN CacheEntry(data, t, ttlMinutes) ELSE c[k]]

cacheRemove(c, keys) == [k \in DOMAIN c \ keys |-> c[k]]

\* the value returned by get(key) at time t
cacheGetResult(c, key, t) ==
  IF key \notin DOMAIN c THEN Null
  ELSE IF isExpired(c[key], t) THEN Null
  ELSE Some(c[key].data)

\* cacheGetStore without the delete: an expired entry stays in the store
cacheGetStore_NoEvict(c, key, t) == c

\* the store after get(key) at time t
cacheGetStore(c, key, t) ==
  IF key \in DOMAIN c /\ isExpired(c[key], t) THEN cacheRemove(c, {key}) ELSE c

\* getStats()
getStats(c) == [size |-> Cardinality(DOMAIN c), keys |-> DOMAIN c]


(***************************************************************************)
(* fetchWithRetry, fetchCoinGeckoPrice, fetchHistoricalCoinGeckoPrice      *)
(***************************************************************************)
maxRetries == 3

Prices == {1, 2}
\* the instant of the historical requests
T0 == 60 * 1000

\* the two tables of route.ts, keyed by lower-case address
COMMON_TOKENS == {AddrDai}
WELL_KNOWN_TOKENS == [a \in {AddrDai} |-> "dai"]

\* the `prices` arrays a market_chart/range body can carry: [instant, price]
SeriesChoices ==
  { <<>>,
    << <<T0 - 20 * MinuteMs, 1>>, <<T0 + 5 * MinuteMs, 2>> >>,
    << <<T0 + 1, 2>>, <<T0 - 1, 1>> >>,
    << <<T0, 1>> >> }

\* A response body as the code reads it: json is FALSE when response.json()
\* rejects; usd is `data[...]?.usd`, id is `info.id`, prices is `data.prices`
\* (Null: undefined).
Body(json, usd, id, prices) ==
  [json |-> json, usd |-> usd, id |-> id, prices |-> prices]
MalformedBody == Body(FALSE, Null, Null, Null)
ErrorBody == Body(TRUE, Null, Null, Null)
PriceBodies ==
  {MalformedBody} \cup
  {Body(TRUE, u, Null, Null) : u \in {Null, Some(0), Some(1), Some(2)}}
InfoBodies ==
  {MalformedBody} \cup {Body(TRUE, Null, c, Null) : c \in {Null, Some("coin")}}
RangeBodies ==
  {MalformedBody, ErrorBody} \cup
  {Body(TRUE, Null, Null, Some(ps)) : ps \in SeriesChoices}

\* how one fetch(url) can settle: with a response, or with a rejection
\* (network error)
Responses(bodies) ==
  {[kind |-> "response", status |-> 200, body |-> b, error |-> ""] :
     b \in bodies} \cup
  {[kind |-> "response", status |-> st, body |-> ErrorBody, error |-> ""] :
     st \in {404, 429, 500, 503}}
Rejections ==
  {[kind |-> "reject", status |-> 0, body |-> ErrorBody, error |-> e] :
     e \in {"ECONNRESET", "ETIMEDOUT"}}
FetchOutcomes(bodies) == Responses(bodies) \cup Rejections

\* response.ok
ok(response) == response.status >= 200 /\ response.status <= 299

\* fetchWithRetryPass with a linear wait after a 429
fetchWithRetryPass_Linear429(attempt, lastError, o) ==
  IF o.kind = "response"
  THEN IF o.status = 429
       THEN [next |-> "continue", sleep |-> Some(1000 * (attempt + 1)),
             lastError |-> lastError]
       ELSE [next |-> "return", sleep |-> Null, lastError |-> lastError]
  ELSE [next |-> "continue",
        sleep |-> IF attempt < maxRetries - 1
                  THEN Some(1000 * (attempt + 1)) ELSE Null,
        lastError |-> Some(o.error)]

\* fetchWithRetryPass with a fixed wait of one second after a network error
fetchWithRetryPass_FlatNetwork(attempt, lastError, o) ==
  IF o.kind = "response"
  THEN IF o.status = 429
       THEN [next |-> "continue", sleep |-> Some((2 ^ attempt) * 1000),
             lastError |-> lastError]
       ELSE [next |-> "return", sleep |-> Null, lastError |-> lastError]
  ELSE [next |-> "continue",
        sleep |-> IF attempt < maxRetries - 1 THEN Some(1000) ELSE Null,
        lastError |-> Some(o.error)]

\* One pass of the for loop of fetchWithRetry, from the moment fetch(url)
\* settles with outcome o: either the response is returned, or the loop goes
\* on after sleeping for `sleep` milliseconds (Null: no sleep).
fetchWithRetryPass(attempt, lastError, o) ==
  IF o.kind = "response"
  THEN IF o.status = 429
       THEN [next |-> "continue", sleep |-> Some((2 ^ attempt) * 1000),
             lastError |-> lastError]
       ELSE [next |-> "return", sleep |-> Null, lastError |-> lastError]
  ELSE [next |-> "continue",
        sleep |-> IF attempt < maxRetries - 1
                  THEN Some(1000 * (attempt + 1)) ELSE Null,
        lastError |-> Some(o.error)]

\* throw lastError || new Error("Max retries exceeded")
thrownError(lastError) ==
  IF IsNull(lastError) THEN "Max retries exceeded" ELSE Val(lastError)

\* fetchWithRetry run to its end against the outcomes os[1], os[2], os[3] of
\* its successive fetches: what it does and how many fetches it made
RECURSIVE fetchWithRetry(_, _, _)
fetchWithRetry(os, attempt, lastError) ==
  IF ~(attempt < maxRetries)
  THEN [thrown |-> Some(thrownError(lastError)), response |-> Null,
        fetches |-> attempt]
  ELSE LET pass == fetchWithRetryPass(attempt, lastError, os[attempt + 1]) IN
       IF pass.next = "return"
       THEN [thrown |-> Null, response |-> Some(os[attempt + 1]),
             fetches |-> attempt + 1]
       ELSE fetchWithRetry(os, attempt + 1, pass.lastError)

\* everything a call of fetchWithRetry can do, over all the ways its fetches
\* can settle
RetryRuns(bodies) ==
  {fetchWithRetry(os, 0, Null) : os \in [1..maxRetries -> FetchOutcomes(bodies)]}
PriceRuns == RetryRuns(PriceBodies)
InfoRuns == RetryRuns(InfoBodies)
RangeRuns == RetryRuns(RangeBodies)

\* fetchCoinGeckoPrice after fetchWithRetry returned `response`:
\* null when !response.ok or when json() rejects, else data[id]?.usd || null
priceOfResponse(response) ==
  IF ~ok(response) THEN Null
  ELSE IF ~response.body.json THEN Null
  ELSE IF IsNull(response.body.usd) \/ response.body.usd = Some(0) THEN Null
  ELSE response.body.usd

\* fetchCoinGeckoPrice(address, chainId), `run` being what its call of
\* fetchWithRetry does: the price or null, the catch block turning a throw
\* into null.  The two branches (by coin id for a common token, by contract
\* address otherwise) differ in the URL and in the key looked up in the body.
fetchCoinGeckoPrice(address, chainId, run) ==
  IF ~IsNull(run.thrown) THEN Null ELSE priceOfResponse(Val(run.response))

\* closestScan taking a point that is as close as the closest so far
RECURSIVE closestScan_LastWins(_, _, _, _, _)
closestScan_LastWins(prices, timestamp, idx, closestPrice, closestDiff) ==
  IF idx > Len(prices) THEN closestPrice
  ELSE LET d == prices[idx][1] - timestamp
           diff == IF d < 0 THEN 0 - d ELSE d
       IN IF diff <= closestDiff
          THEN closestScan_LastWins(prices, timestamp, idx + 1,
                                    prices[idx][2], diff)
          ELSE closestScan_LastWins(prices, timestamp, idx + 1, closestPrice,
                                    closestDiff)

\* the scan of fetchHistoricalCoinGeckoPrice from prices[idx] on
RECURSIVE closestScan(_, _, _, _, _)
closestScan(prices, timestamp, idx, closestPrice, closestDiff) ==
  IF idx > Len(prices) THEN closestPrice
  ELSE LET d == prices[idx][1] - timestamp
           diff == IF d < 0 THEN 0 - d ELSE d
       IN IF diff < closestDiff
          THEN closestScan(prices, timestamp, idx + 1, prices[idx][2], diff)
          ELSE closestScan(prices, timestamp, idx + 1, closestPrice,
                           closestDiff)

\* the price closest to the target timestamp, for a non-empty series
closestPrice(prices, timestamp) ==
  LET d == prices[1][1] - timestamp IN
    closestScan(prices, timestamp, 1, prices[1][2], IF d < 0 THEN 0 - d ELSE d)

\* fetchHistoricalCoinGeckoPrice taking the address for the coin id when the
\* lookup by contract address fails
fetchHistoricalCoinGeckoPrice_AddressAsId(address, chainId, timestamp, infoRun, rangeRun) ==
  LET normalizedAddress == toLowerCase(address)
      known == normalizedAddress \in DOMAIN WELL_KNOWN_TOKENS
      resolved ==
        IF known THEN Some(WELL_KNOWN_TOKENS[normalizedAddress])
        ELSE IF ~IsNull(infoRun.thrown) THEN Some("address")
        ELSE IF ~ok(Val(infoRun.response)) THEN Some("address")
        ELSE IF ~Val(infoRun.response).body.json THEN Some("stop")
        ELSE Val(infoRun.response).body.id
      ranged == ~IsNull(resolved) /\ resolved # Some("stop")
      body == Val(rangeRun.response).body
  IN [infoRequested |-> ~known,
      rangeRequested |-> ranged,
      price |->
        IF ~ranged THEN Null
        ELSE IF ~IsNull(rangeRun.thrown) THEN Null
        ELSE IF ~ok(Val(rangeRun.response)) THEN Null
        ELSE IF ~body.json THEN Null
        ELSE IF IsNull(body.prices) THEN Null
        ELSE IF Len(Val(body.prices)) = 0 THEN Null
        ELSE Some(closestPrice(Val(body.prices), timestamp))]

\* fetchHistoricalCoinGeckoPrice(address, chainId, timestamp): infoRun is what
\* the coin-id lookup by contract address does when it is made, rangeRun what
\* the market_chart/range request does when it is made
fetchHistoricalCoinGeckoPrice(address, chainId, timestamp, infoRun, rangeRun) ==
  LET normalizedAddress == toLowerCase(address)
      known == normalizedAddress \in DOMAIN WELL_KNOWN_TOKENS
      \* Some(coinId), or "stop" when the function returns null at once
      resolved ==
        IF known THEN Some(WELL_KNOWN_TOKENS[normalizedAddress])
        ELSE IF ~IsNull(infoRun.thrown) THEN Some("stop")
        ELSE IF ~ok(Val(infoRun.response)) THEN Some("stop")
        ELSE IF ~Val(infoRun.response).body.json THEN Some("stop")
        ELSE Val(infoRun.response).body.id
      ranged == ~IsNull(resolved) /\ resolved # Some("stop")
      body == Val(rangeRun.response).body
  IN [infoRequested |-> ~known,
      rangeRequested |-> ranged,
      price |->
        IF ~ranged THEN Null
        ELSE IF ~IsNull(rangeRun.thrown) THEN Null
        ELSE IF ~ok(Val(rangeRun.response)) THEN Null
        ELSE IF ~body.json THEN Null
        ELSE IF IsNull(body.prices) THEN Null
        ELSE IF Len(Val(body.prices)) = 0 THEN Null
        ELSE Some(closestPrice(Val(body.prices), timestamp))]

JobIdle ==
  [pc |-> "idle", attempt |-> 0, lastError |-> Null, log |-> <<>>,
   thrown |-> Null, result |-> Null]

Event(ev, attempt, arg) == [ev |-> ev, attempt |-> attempt, arg |-> arg]

(***************************************************************************)
(* The POST handlers of /api/prices ("current") and /api/prices/historical *)
(* ("historical"), and the client functions that call them.                *)
(***************************************************************************)
\* an entry of the request list; timestamp is read by the historical handler
\* only
Token(address, chainId, timestamp) ==
  [address |-> address, chainId |-> chainId, timestamp |-> timestamp]

BATCH_SIZE(kind) == IF kind = "current" THEN 5 ELSE 3
DELAY_MS(kind) == IF kind = "current" THEN 500 ELSE 1000

\* responseKey without toLowerCase
responseKey_AsGiven(kind, t) ==
  IF kind = "current" THEN <<t.address, t.chainId>>
  ELSE <<t.address, t.chainId, t.timestamp>>

\* the key of priceMap: `${address.toLowerCase()}_${chainId}`, with
\* `_${timestamp}` appended by the historical handler
responseKey(kind, t) ==
  IF kind = "current" THEN <<toLowerCase(t.address), t.chainId>>
  ELSE <<toLowerCase(t.address), t.chainId, t.timestamp>>

\* the key of the server cache
cacheKey(kind, t) ==
  IF kind = "current" THEN tokenPrice(t.address, t.chainId)
  ELSE historicalPrice(t.address, t.chainId, t.timestamp)

\* the TTL given to serverCache.set: 30 or 5 minutes for a current price,
\* 7 days for a historical one
ttlOf(kind, t) ==
  IF kind = "current"
  THEN IF toLowerCase(t.address) \in COMMON_TOKENS THEN 30 ELSE 5
  ELSE 10080

\* mapPut that forgets the other entries
mapPut_Alone(m, k, v) == [x \in {k} |-> v]

\* m[k] = v
mapPut(m, k, v) == [x \in DOMAIN m \cup {k} |-> IF x = k THEN v ELSE m[x]]

\* checkCache that never finds an entry: every token is fetched
checkCache_AlwaysMiss(kind, tokens, idx, c, pm, tf, t) ==
  [cache |-> c, priceMap |-> pm,
   tokensToFetch |-> tf \o SubSeq(tokens, idx, Len(tokens))]

\* the "Check cache first" loop from tokens[idx] on, at time t
RECURSIVE checkCache(_, _, _, _, _, _, _)
checkCache(kind, tokens, idx, c, pm, tf, t) ==
  IF idx > Len(tokens)
  THEN [cache |-> c, priceMap |-> pm, tokensToFetch |-> tf]
  ELSE LET tok == tokens[idx]
           cachedPrice == cacheGetResult(c, cacheKey(kind, tok), t)
           c2 == cacheGetStore(c, cacheKey(kind, tok), t)
       IN IF ~IsNull(cachedPrice)
          THEN checkCache(kind, tokens, idx + 1, c2,
                          mapPut(pm, responseKey(kind, tok), Val(cachedPrice)),
                          tf, t)
          ELSE checkCache(kind, tokens, idx + 1, c2, pm, Append(tf, tok), t)

\* batch with the end of the slice off by one
batch_OneMore(kind, tf, start) ==
  {p \in 1..Len(tf) : p > start /\ p <= start + BATCH_SIZE(kind) + 1}

\* the positions of tokensToFetch.slice(i, i + BATCH_SIZE)
batch(kind, tf, start) ==
  {p \in 1..Len(tf) : p > start /\ p <= start + BATCH_SIZE(kind)}

\* the body of the 200 response
responseOf(tokens, tf, pm) ==
  [prices |-> pm, cached |-> Len(tokens) - Len(tf), fetched |-> Len(tf),
   total |-> Len(tokens)]

\* uniqueKey without toLowerCase
uniqueKey_AsGiven(kind, t) ==
  IF kind = "current" THEN <<t.address, t.chainId>>
  ELSE <<t.address, t.chainId, t.timestamp>>

\* the key by which the client functions remove duplicates
uniqueKey(kind, t) ==
  IF kind = "current" THEN <<toLowerCase(t.address), t.chainId>>
  ELSE <<toLowerCase(t.address), t.chainId, t.timestamp>>

\* Array.from(new Map(list.map(t => [key, t])).values()): one entry per key,
\* at the place of the key's first occurrence, holding its last occurrence
uniqueTokens(kind, list) ==
  LET first(n) == \A m \in 1..(n - 1) :
                    uniqueKey(kind, list[m]) # uniqueKey(kind, list[n])
      last(n) == CHOOSE m \in n..Len(list) :
                   /\ uniqueKey(kind, list[m]) = uniqueKey(kind, list[n])
                   /\ \A l \in (m + 1)..Len(list) :
                        uniqueKey(kind, list[l]) # uniqueKey(kind, list[n])
      firsts == SelectSeq([n \in 1..Len(list) |-> n], first)
  IN [j \in 1..Len(firsts) |-> list[last(firsts[j])]]

\* the request lists
CurrentTokens ==
  {Token(AddrDai, Ethereum, 0), Token(AddrDaiMixed, Ethereum, 0),
   Token(AddrOther, Arbitrum, 0)}
HistoricalTokens ==
  {Token(AddrDai, Ethereum, T0), Token(AddrDaiMixed, Ethereum, T0),
   Token(AddrDai, Ethereum, T0 + 1), Token(AddrOther, Arbitrum, T0),
   Token(AddrOther, Arbitrum, T0 + 1)}
Tokens(kind) == IF kind = "current" THEN CurrentTokens ELSE HistoricalTokens
Kinds == {"current", "historical"}

\* what the fetch of a job can yield, over all the ways the provider can
\* answer
CurrentJobPrices ==
  [t \in CurrentTokens |->
     {fetchCoinGeckoPrice(t.address, t.chainId, run) : run \in PriceRuns}]
HistoricalJobPrices ==
  [t \in HistoricalTokens |->
     {fetchHistoricalCoinGeckoPrice(t.address, t.chainId, t.timestamp,
                                    ir, rr).price :
        ir \in InfoRuns, rr \in RangeRuns}]
jobPrices(kind, t) ==
  IF kind = "current" THEN CurrentJobPrices[t] ELSE HistoricalJobPrices[t]

NoRequest == [kind |-> "current", tokens |-> <<>>, client |-> Null]

(***************************************************************************)
(* Inputs of the cache operations.                                         *)
(***************************************************************************)
(* Foreign exchange rates: the providers and the resolver chain.  A rate   *)
(* is held in hundredths (1.54 is 154).                                    *)
(***************************************************************************)
\* the handler instances that may be in flight at once
Procs == {1, 2}

DEFAULT_CURRENCIES == <<"USD", "AUD", "GBP", "CAD">>
FALLBACK_RATES == [USD |-> 100, AUD |-> 154, GBP |-> 79, CAD |-> 137]

currentFXRates == <<"fx", "current">>
historicalFXRates(date) == <<"fx", "historical", date>>

Day == 24 * 60 * Minute
\* the calendar date of a timestamp, as the number of its day
dateString(timestamp) == timestamp \div Day

\* the bodies a provider may answer with: json() rejecting, or an object
\* whose rates / conversion_rates field is missing or is a table of rates
FxBody(json, rates, conversion_rates) ==
  [json |-> json, rates |-> rates, conversion_rates |-> conversion_rates]
RateTables ==
  {[c \in {"USD", "AUD", "GBP", "CAD"} |->
      CASE c = "USD" -> 100 [] c = "AUD" -> 150 [] c = "GBP" -> 80
        [] OTHER -> 135],
   [c \in {"AUD", "GBP"} |-> IF c = "AUD" THEN 152 ELSE 0]}
PrimaryBodies ==
  {FxBody(FALSE, Null, Null), FxBody(TRUE, Null, Null)} \cup
  {FxBody(TRUE, Some(t), Null) : t \in RateTables}
BackupBodies ==
  {FxBody(FALSE, Null, Null), FxBody(TRUE, Null, Null)} \cup
  {FxBody(TRUE, Null, Some(t)) : t \in RateTables}
PrimaryRuns == RetryRuns(PrimaryBodies)
BackupRuns == RetryRuns(BackupBodies)

\* what a provider function hands to the chain: rates is Null for a falsy
\* value (null, undefined); threw tells that the function raised
Rates(table) == [threw |-> FALSE, rates |-> Some(table)]
NoRates == [threw |-> FALSE, rates |-> Null]
Threw == [threw |-> TRUE, rates |-> Null]

\* try { ... } catch without the return null: the error goes on to the caller
catchReturnsNull_Rethrow(r) == r

\* try { ... } catch (error) { return null }
catchReturnsNull(r) == IF r.threw THEN NoRates ELSE r

\* the try block of fetchOpenExchangeRates and of
\* fetchHistoricalOpenExchangeRates, fetchWithRetry having ended as `run`
openExchangeRatesTry(run) ==
  IF ~IsNull(run.thrown) THEN Threw
  ELSE LET response == Val(run.response) IN
       IF ~ok(response) THEN NoRates
       ELSE IF ~response.body.json THEN Threw
       ELSE IF IsNull(response.body.rates) THEN NoRates
       ELSE Rates(Val(response.body.rates))

\* the try block of fetchExchangeRateAPI
exchangeRateAPITry(currencies, run) ==
  IF ~IsNull(run.thrown) THEN Threw
  ELSE LET response == Val(run.response) IN
       IF ~ok(response) THEN NoRates
       ELSE IF ~response.body.json THEN Threw
       ELSE IF IsNull(response.body.conversion_rates)
       THEN IF Len(currencies) = 0 THEN Rates(<<>>) ELSE Threw
       ELSE LET t == Val(response.body.conversion_rates) IN
            Rates([c \in {currencies[n] : n \in DOMAIN currencies}
                         \cap {d \in DOMAIN t : t[d] # 0} |-> t[c]])

\* rates[currency] || FALLBACK_RATES[currency]
rateOrFallback(table, currency) ==
  IF currency \in DOMAIN table /\ table[currency] # 0
  THEN table[currency] ELSE FALLBACK_RATES[currency]

\* currencies.map(...) at the end of getCurrentFXRates
toFXRates(currencies, table, source, timestamp) ==
  [n \in DOMAIN currencies |->
     [baseCurrency |-> "USD", targetCurrency |-> currencies[n],
      rate |-> rateOrFallback(table, currencies[n]),
      timestamp |-> timestamp, source |-> source]]

\* currencies.map(...) at the end of getHistoricalFXRates
toHistoricalFXRates(currencies, table, source, timestamp) ==
  [n \in DOMAIN currencies |->
     [baseCurrency |-> "USD", targetCurrency |-> currencies[n],
      rate |-> rateOrFallback(table, currencies[n]),
      timestamp |-> timestamp, date |-> dateString(timestamp),
      source |-> source]]

\* currentAsHistorical without the source: "fallback"
currentAsHistorical_KeepSource(currentRates, date) ==
  [n \in DOMAIN currentRates |->
     [baseCurrency |-> currentRates[n].baseCurrency,
      targetCurrency |-> currentRates[n].targetCurrency,
      rate |-> currentRates[n].rate,
      timestamp |-> currentRates[n].timestamp, date |-> date,
      source |-> currentRates[n].source]]

\* currentRates.map((rate) => ({...rate, date, source: "fallback"}))
currentAsHistorical(currentRates, date) ==
  [n \in DOMAIN currentRates |->
     [baseCurrency |-> currentRates[n].baseCurrency,
      targetCurrency |-> currentRates[n].targetCurrency,
      rate |-> currentRates[n].rate,
      timestamp |-> currentRates[n].timestamp, date |-> date,
      source |-> "fallback"]]

\* a handler instance that serves no request
FxIdle ==
  [pc |-> "idle", op |-> "none", keys |-> <<>>, currencies |-> <<>>,
   requests |-> <<>>, idx |-> 0, results |-> <<>>, cached |-> 0,
   fetched |-> 0, timestamp |-> 0, at |-> 0, started |-> 0,
   request |-> <<>>, calls |-> <<>>]

\* an instance of the handler of POST /api/prices that has received no
\* request
NotServing ==
  [pc |-> "idle", tokens |-> <<>>, tokensToFetch |-> <<>>, priceMap |-> <<>>,
   pending |-> {}, inFlightElsewhere |-> {}, body |-> Null]

(***************************************************************************)
CacheOpKeys ==
  {tokenPrice(AddrDai, Ethereum), historicalPrice(AddrOther, Arbitrum, T0)}
TtlChoices == {0, 5}

\* the instants (in minutes) near which the clock is observed: the start and
\* the three TTLs of the price handlers
ClockMinutes == {0, 5, 30, 10080}
ClockValues == {m * Minute + d : m \in ClockMinutes, d \in 0..MaxDrift}

Init ==
  /\ now = 0
  /\ cache = <<>>
  /\ lastSet = [k \in CacheOpKeys |-> Null]
  /\ lastOp = NoOp
  /\ job = JobIdle
  /\ located = Null
  /\ hpc = "idle"
  /\ req = NoRequest
  /\ priceMap = <<>>
  /\ tokensToFetch = <<>>
  /\ loopIndex = 0
  /\ pending = {}
  /\ attempts = <<>>
  /\ settled = <<>>
  /\ groups = <<>>
  /\ delays = <<>>
  /\ responseBody = Null
  /\ history = <<>>
  /\ fx = [i \in Procs |-> FxIdle]
  /\ fxHistory = <<>>
  /\ pnl = Null
  /\ clientCall = Null
  /\ serving = [i \in Procs |-> NotServing]
  /\ fetches = <<>>

\* time passes
Tick ==
  /\ \E t \in ClockValues : t > now /\ now' = t
  /\ UNCHANGED <<cache, lastSet, lastOp, jobVars, handlerVars, fxVars, clientVars, overlapVars>>

\* serverCache.set(key, data, ttlMinutes)
Set(key, data, ttlMinutes) ==
  /\ cache' = cacheSet(cache, key, data, ttlMinutes, now)
  /\ lastSet' = [lastSet EXCEPT
       ![key] = Some([data |-> data, at |-> now, ttlMinutes |-> ttlMinutes])]
  /\ lastOp' = [op |-> "set", key |-> key, result |-> Null, at |-> now]
  /\ UNCHANGED <<now, jobVars, handlerVars, fxVars, clientVars, overlapVars>>

\* serverCache.get(key)
Get(key) ==
  /\ cache' = cacheGetStore(cache, key, now)
  /\ lastOp' = [op |-> "get", key |-> key,
                result |-> cacheGetResult(cache, key, now), at |-> now]
  /\ UNCHANGED <<now, lastSet, jobVars, handlerVars, fxVars, clientVars, overlapVars>>

\* serverCache.has(key): this.get(key) !== null
Has(key) ==
  /\ cache' = cacheGetStore(cache, key, now)
  /\ lastOp' = [op |-> "has", key |-> key,
                result |-> Some(~IsNull(cacheGetResult(cache, key, now))),
                at |-> now]
  /\ UNCHANGED <<now, lastSet, jobVars, handlerVars, fxVars, clientVars, overlapVars>>

\* serverCache.delete(key)
Delete(key) ==
  /\ cache' = cacheRemove(cache, {key})
  /\ lastSet' = [lastSet EXCEPT ![key] = Null]
  /\ lastOp' = [op |-> "delete", key |-> key, result |-> Null, at |-> now]
  /\ UNCHANGED <<now, jobVars, handlerVars, fxVars, clientVars, overlapVars>>

\* serverCache.clear()
Clear ==
  /\ cache' = <<>>
  /\ lastSet' = [k \in CacheOpKeys |-> Null]
  /\ lastOp' = [op |-> "clear", key |-> <<>>, result |-> Null, at |-> now]
  /\ UNCHANGED <<now, jobVars, handlerVars, fxVars, clientVars, overlapVars>>

\* the keys the periodic sweep deletes at time t
keysToDelete(c, t) == {k \in DOMAIN c : isExpired(c[k], t)}

\* ServerCache.cleanup(), run by the interval timer
Cleanup ==
  /\ cache' = cacheRemove(cache, keysToDelete(cache, now))
  /\ lastOp' = [op |-> "cleanup", key |-> <<>>, result |-> Null, at |-> now]
  /\ UNCHANGED <<now, lastSet, jobVars, handlerVars, fxVars, clientVars, overlapVars>>

(***************************************************************************)
(* One fetchCoinGeckoPrice call, step by step.  log records what the call  *)
(* did: fetch(a) issued, response(a, status) or reject(a) received,        *)
(* sleep(a, ms), and the return or throw that ends fetchWithRetry.         *)
(***************************************************************************)
\* the top of the for loop with the given value of attempt: the next fetch
\* is issued, or the loop is over and fetchWithRetry throws, which the catch
\* block of fetchCoinGeckoPrice turns into null
loopTop(j, attempt, log) ==
  IF attempt < maxRetries
  THEN [j EXCEPT !.pc = "fetching", !.attempt = attempt,
                 !.log = Append(log, Event("fetch", attempt, 0))]
  ELSE [j EXCEPT !.pc = "done", !.attempt = attempt,
                 !.log = Append(log, Event("throw", attempt, 0)),
                 !.thrown = Some(thrownError(j.lastError)),
                 !.result = Null]

JobStart ==
  /\ job.pc = "idle"
  /\ job' = loopTop(job, 0, job.log)
  /\ UNCHANGED <<cacheVars, handlerVars, fxVars, clientVars, overlapVars,
                 located>>

\* the pending fetch settles with outcome o
FetchSettles(o) ==
  /\ job.pc = "fetching"
  /\ LET pass == fetchWithRetryPass(job.attempt, job.lastError, o)
         seen == Append(job.log, Event(o.kind, job.attempt, o.status))
         j == [job EXCEPT !.lastError = pass.lastError]
     IN job' =
          IF pass.next = "return"
          THEN [j EXCEPT !.pc = "done",
                         !.log = Append(seen, Event("return", job.attempt,
                                                    o.status)),
                         !.result = priceOfResponse(o)]
          ELSE IF ~IsNull(pass.sleep)
          THEN [j EXCEPT !.pc = "sleeping",
                         !.log = Append(seen, Event("sleep", job.attempt,
                                                    Val(pass.sleep)))]
          ELSE loopTop(j, job.attempt + 1, seen)
  /\ UNCHANGED <<cacheVars, handlerVars, fxVars, clientVars, overlapVars,
                 located>>

\* the timer of sleep(ms) fires
SleepElapsed ==
  /\ job.pc = "sleeping"
  /\ job' = loopTop(job, job.attempt + 1, job.log)
  /\ UNCHANGED <<cacheVars, handlerVars, fxVars, clientVars, overlapVars,
                 located>>

NextRetry ==
  \/ JobStart
  \/ \E o \in FetchOutcomes(PriceBodies) : FetchSettles(o)
  \/ SleepElapsed

SpecRetry == Init /\ [][NextRetry]_vars

(***************************************************************************)
(* The POST handlers, from one await to the next.                          *)
(***************************************************************************)
\* the entry of `history` for the request that ends with body b
Served(r, at, tf, b) ==
  [kind |-> r.kind, tokens |-> r.tokens, client |-> r.client, at |-> at,
   jobs |-> Len(tf), body |-> b]

\* POST with body {tokens} (or {requests}): the cache is consulted for every
\* entry, then either there is nothing to fetch and the response is sent, or
\* the jobs of the first group are started.  `client` is the list given to
\* the client function that sends the request, Null when there is none.
Post(kind, tokens, client) ==
  /\ hpc = "idle"
  /\ LET chk == checkCache(kind, tokens, 1, cache, <<>>, <<>>, now)
         tf == chk.tokensToFetch
         r == [kind |-> kind, tokens |-> tokens, client |-> client]
     IN /\ cache' = chk.cache
        /\ req' = r
        /\ priceMap' = chk.priceMap
        /\ tokensToFetch' = tf
        /\ loopIndex' = 0
        /\ settled' = <<>>
        /\ delays' = <<>>
        /\ IF 0 < Len(tf)
           THEN /\ hpc' = "group"
                /\ pending' = batch(kind, tf, 0)
                /\ attempts' = [p \in batch(kind, tf, 0) |-> 0]
                /\ groups' = <<batch(kind, tf, 0)>>
                /\ responseBody' = Null
                /\ history' = Append(history, Served(r, now, tf, Null))
           ELSE /\ hpc' = "idle"
                /\ pending' = {}
                /\ attempts' = <<>>
                /\ groups' = <<>>
                /\ responseBody' = Some(responseOf(tokens, tf, chk.priceMap))
                /\ history' =
                     Append(history,
                            Served(r, now, tf,
                                   Some(responseOf(tokens, tf, chk.priceMap))))
  /\ UNCHANGED <<now, lastSet, lastOp, jobVars, fxVars, clientVars, overlapVars>>

\* allSettled resolving as soon as one job has settled
allSettled_Any(pend) == TRUE

\* await Promise.allSettled(batch.map(...)) resolves when no job of the
\* group is left unsettled
allSettled(pend) == pend = {}

\* jobCache that also stores the outcome of a fetch that yielded no price
jobCache_AlsoNull(c, kind, tok, price, t) ==
  cacheSet(c, cacheKey(kind, tok), IF IsNull(price) THEN 0 ELSE Val(price),
           ttlOf(kind, tok), t)

\* the server cache after the job of `tok`, whose fetch yielded `price`:
\* if (price !== null) { ...; serverCache.set(cacheKey, price, ttl) }
jobCache(c, kind, tok, price, t) ==
  IF IsNull(price) THEN c
  ELSE cacheSet(c, cacheKey(kind, tok), Val(price), ttlOf(kind, tok), t)

\* The job at position p of tokensToFetch settles, its fetch having yielded
\* `price`: a price is put in priceMap and in the cache.  When it is the last
\* job of its group, Promise.allSettled resolves and the handler either
\* starts the pacing sleep or leaves the loop and responds.
JobSettles(p, price) ==
  /\ hpc = "group"
  /\ p \in pending
  /\ LET kind == req.kind
         tok == tokensToFetch[p]
         pm == IF IsNull(price) THEN priceMap
               ELSE mapPut(priceMap, responseKey(kind, tok), Val(price))
         body == Some(responseOf(req.tokens, tokensToFetch, pm))
     IN /\ priceMap' = pm
        /\ cache' = jobCache(cache, kind, tok, price, now)
        /\ settled' = [q \in DOMAIN settled \cup {p} |->
                         IF q = p THEN price ELSE settled[q]]
        /\ pending' = pending \ {p}
        /\ attempts' = [q \in pending \ {p} |-> attempts[q]]
        /\ IF ~allSettled(pending')
           THEN UNCHANGED <<hpc, delays, responseBody, history>>
           ELSE IF loopIndex + BATCH_SIZE(kind) < Len(tokensToFetch)
           THEN /\ hpc' = "delay"
                /\ delays' = Append(delays, DELAY_MS(kind))
                /\ UNCHANGED <<responseBody, history>>
           ELSE /\ hpc' = "idle"
                /\ responseBody' = body
                /\ history' = [history EXCEPT ![Len(history)].body = body]
                /\ UNCHANGED delays
  /\ UNCHANGED <<now, lastSet, lastOp, jobVars, fxVars, clientVars, overlapVars, req, tokensToFetch,
                loopIndex,
                 groups>>

\* the pacing sleep is over: i += BATCH_SIZE and the next group is started
DelayElapsed ==
  /\ hpc = "delay"
  /\ loopIndex' = loopIndex + BATCH_SIZE(req.kind)
  /\ pending' = batch(req.kind, tokensToFetch, loopIndex')
  /\ attempts' = [p \in pending' |-> 0]
  /\ groups' = Append(groups, pending')
  /\ hpc' = "group"
  /\ UNCHANGED <<cacheVars, jobVars, fxVars, clientVars, overlapVars, req,
                 priceMap, tokensToFetch, settled, delays, responseBody,
                 history>>

\* getBatchTokenPrices(list) / getBatchHistoricalPrices(list) up to the
\* request they send: nothing is sent for an empty list
ClientCall(kind, list) ==
  /\ Len(uniqueTokens(kind, list)) # 0
  /\ Post(kind, uniqueTokens(kind, list), Some(list))

\* the request lists of a cold start: the first n entries of a fixed cycle
cycle(kind) ==
  IF kind = "current"
  THEN <<Token(AddrDai, Ethereum, 0), Token(AddrOther, Arbitrum, 0),
         Token(AddrDaiMixed, Ethereum, 0)>>
  ELSE <<Token(AddrDai, Ethereum, T0), Token(AddrOther, Arbitrum, T0),
         Token(AddrOther, Arbitrum, T0 + 1)>>
BatchLists(kind) ==
  {[n \in 1..len |-> cycle(kind)[((n - 1) % 3) + 1]] : len \in 0..MaxJobs}

\* the request lists of the runs where a request is repeated
RepeatTokens(kind) ==
  IF kind = "current" THEN CurrentTokens
  ELSE {Token(AddrDai, Ethereum, T0), Token(AddrDaiMixed, Ethereum, T0),
        Token(AddrDai, Ethereum, T0 + 1)}
RECURSIVE ListsUpTo(_, _)
ListsUpTo(S, n) ==
  IF n = 0 THEN {<<>>}
  ELSE LET shorter == ListsUpTo(S, n - 1) IN
       shorter \cup {Append(l, t) : l \in shorter, t \in S}
\* a historical request of more keys than one group holds
LongList ==
  <<Token(AddrDai, Ethereum, T0), Token(AddrOther, Arbitrum, T0),
    Token(AddrOther, Arbitrum, T0 + 1), Token(AddrDai, Ethereum, T0 + 1)>>
RepeatLists(kind) ==
  ListsUpTo(RepeatTokens(kind), MaxLen)
    \cup (IF kind = "historical" THEN {LongList} ELSE {})

\* one request served from a cold cache
NextBatch ==
  \/ /\ history = <<>>
     /\ \E kind \in Kinds : \E tokens \in BatchLists(kind) :
          Post(kind, tokens, Null)
  \/ \E p \in pending : \E price \in jobPrices(req.kind, tokensToFetch[p]) :
       JobSettles(p, price)
  \/ DelayElapsed

SpecBatch == Init /\ [][NextBatch]_vars

\* A fetch of the pending job at position p is answered by o, which makes
\* fetchWithRetry go round its loop once more: the job sleeps and fetches
\* again, and the handler stays in its await of Promise.allSettled.
JobRetries(p, o) ==
  /\ hpc = "group"
  /\ p \in pending
  /\ attempts[p] + 1 < maxRetries
  /\ fetchWithRetryPass(attempts[p], Null, o).next = "continue"
  /\ attempts' = [attempts EXCEPT ![p] = attempts[p] + 1]
  /\ UNCHANGED <<cacheVars, jobVars, fxVars, clientVars, overlapVars, hpc,
                 req, priceMap, tokensToFetch, loopIndex, pending, settled,
                 groups, delays, responseBody, history>>

\* one request served from a cold cache, the retries of its jobs followed
NextPaced ==
  \/ /\ history = <<>>
     /\ \E kind \in Kinds : \E tokens \in BatchLists(kind) :
          Post(kind, tokens, Null)
  \/ \E p \in pending : \E o \in FetchOutcomes(PriceBodies) : JobRetries(p, o)
  \/ \E p \in pending : \E price \in jobPrices(req.kind, tokensToFetch[p]) :
       JobSettles(p, price)
  \/ DelayElapsed

SpecPaced == Init /\ [][NextPaced]_vars

\* time passes between two requests
TickIdle ==
  /\ hpc = "idle"
  /\ history # <<>>
  /\ Tick

\* a request, sent to the handler directly or through the client function,
\* and then the same request once more
NextTwice ==
  \/ /\ history = <<>>
     /\ \E kind \in Kinds : \E tokens \in RepeatLists(kind) :
          Post(kind, tokens, Null)
  \/ /\ history = <<>>
     /\ \E kind \in Kinds : \E list \in RepeatLists(kind) :
          ClientCall(kind, list)
  \/ /\ Len(history) = 1
     /\ Post(history[1].kind, history[1].tokens, Null)
  \/ /\ Len(history) = 1
     /\ ~IsNull(history[1].client)
     /\ ClientCall(history[1].kind, Val(history[1].client))
  \/ \E p \in pending : \E price \in jobPrices(req.kind, tokensToFetch[p]) :
       JobSettles(p, price)
  \/ DelayElapsed
  \/ TickIdle

SpecTwice == Init /\ [][NextTwice]_vars

NextCache ==
  \/ Tick
  \/ \E k \in CacheOpKeys, v \in Prices, ttl \in TtlChoices : Set(k, v, ttl)
  \/ \E k \in CacheOpKeys : Get(k)
  \/ \E k \in CacheOpKeys : Has(k)
  \/ \E k \in CacheOpKeys : Delete(k)
  \/ Clear
  \/ Cleanup

SpecCache == Init /\ [][NextCache]_vars

(***************************************************************************)
(* C1: after set(k, v, ttl), a get(k) with no time elapsed returns v, and  *)
(* a get(k) made once the clock has advanced by more than ttl returns      *)
(* null, whatever happened to other keys in between.                       *)
(***************************************************************************)
C1_SetThenGet ==
  \A k \in CacheOpKeys :
    (lastOp.op = "get" /\ lastOp.key = k /\ ~IsNull(lastSet[k])) =>
       LET s == Val(lastSet[k]) IN
         /\ (lastOp.at = s.at => lastOp.result = Some(s.data))
         /\ (lastOp.at - s.at > s.ttlMinutes * Minute =>
               lastOp.result = Null)

C1_Witness ==
  \E k \in CacheOpKeys :
    /\ lastOp.op = "get" /\ lastOp.key = k /\ ~IsNull(lastSet[k])
    /\ Val(lastSet[k]).ttlMinutes = 5
    /\ lastOp.at - Val(lastSet[k]).at > 5 * Minute
    /\ lastOp.result = Null

(***************************************************************************)
(* C2: a get or has on an entry with now - timestamp > ttl answers absent  *)
(* and removes the entry on that very read, so that getStats().keys no     *)
(* longer lists the key; a read of an entry with now - timestamp <= ttl    *)
(* never removes it.                                                       *)
(***************************************************************************)
C2_LazyEviction ==
  [][\A k \in CacheOpKeys :
       (k \in DOMAIN cache /\ (Get(k) \/ Has(k))) =>
          IF now - cache[k].timestamp > cache[k].ttl
          THEN /\ lastOp'.result = (IF Get(k) THEN Null ELSE Some(FALSE))
               /\ k \notin getStats(cache').keys
          ELSE /\ k \in getStats(cache').keys
               /\ cache'[k] = cache[k]]_vars

C2_Witness ==
  \E k \in CacheOpKeys :
    /\ lastOp.op = "has" /\ lastOp.key = k /\ lastOp.result = Some(FALSE)
    /\ ~IsNull(lastSet[k])
    /\ k \notin getStats(cache).keys


(***************************************************************************)
(* Vocabulary of the claims about the handlers.                            *)
(***************************************************************************)
\* the canonical key of a request: the address compared case-insensitively,
\* the chain and, for a historical request, the instant
CanonKey(kind, t) ==
  IF kind = "current" THEN <<toLowerCase(t.address), t.chainId>>
  ELSE <<toLowerCase(t.address), t.chainId, t.timestamp>>
CanonKeys(kind, list) == {CanonKey(kind, list[n]) : n \in DOMAIN list}

\* the handler has answered the request req
Responded == hpc = "idle" /\ ~IsNull(responseBody)

\* the group size the claims give for each handler
GroupSize(kind) == IF kind = "current" THEN 5 ELSE 3
CeilDiv(n, d) == (n + d - 1) \div d

(***************************************************************************)
(* C3: n cache-miss jobs are processed in ceil(n/N) consecutive groups of  *)
(* at most N jobs, in input order (N = 5 for current prices, 3 for         *)
(* historical ones), with one pacing delay between each two consecutive    *)
(* groups and none after the last: max(0, ceil(n/N) - 1) delays.           *)
(***************************************************************************)
C3_GroupsAndDelays ==
  LET n == Len(tokensToFetch)
      N == GroupSize(req.kind)
  IN /\ \A g \in DOMAIN groups :
          groups[g] = {p \in 1..n : (g - 1) * N < p /\ p <= g * N}
     /\ hpc = "group" => Len(delays) = Len(groups) - 1
     /\ hpc = "delay" => Len(delays) = Len(groups) /\ Len(groups) * N < n
     /\ Responded =>
          /\ Len(groups) = CeilDiv(n, N)
          /\ Len(delays) = (IF n = 0 THEN 0 ELSE CeilDiv(n, N) - 1)
          /\ DOMAIN settled = 1..n

C3_Witness ==
  /\ Responded
  /\ req.kind = "current"
  /\ Len(tokensToFetch) = 7
  /\ Len(groups) = 2
  /\ Cardinality(groups[1]) = 5
  /\ delays = <<500>>

(***************************************************************************)
(* C4: a job that yields no price neither keeps a sibling of its group     *)
(* from completing, with its price in the response and in the cache, nor   *)
(* aborts the batch: the later groups run and the handler answers with the *)
(* prices it has.                                                          *)
(***************************************************************************)
\* the prices yielded by the jobs settled so far for the key of position p
YieldedFor(p) ==
  {Val(settled[q]) : q \in {q \in DOMAIN settled :
      /\ ~IsNull(settled[q])
      /\ CanonKey(req.kind, tokensToFetch[q]) =
           CanonKey(req.kind, tokensToFetch[p])}}

C4_AllSettled ==
  /\ hpc = "group" => pending # {}
  /\ \A p \in DOMAIN settled :
       ~IsNull(settled[p]) =>
          LET k == CanonKey(req.kind, tokensToFetch[p]) IN
            /\ k \in DOMAIN priceMap
            /\ priceMap[k] \in YieldedFor(p)
            /\ cacheKey(req.kind, tokensToFetch[p]) \in DOMAIN cache
            /\ cache[cacheKey(req.kind, tokensToFetch[p])].data = priceMap[k]
  /\ Responded =>
       /\ DOMAIN settled = 1..Len(tokensToFetch)
       /\ Val(responseBody).prices = priceMap

C4_Witness ==
  /\ Responded
  /\ Len(groups) = 2
  /\ DOMAIN settled = 1..6
  /\ IsNull(settled[1])
  /\ ~IsNull(settled[2])
  /\ ~IsNull(settled[6])
  /\ Cardinality(DOMAIN Val(responseBody).prices) = 2

Repeated ==
  /\ Len(history) = 2
  /\ Responded
  /\ history[1].kind = "current"
  /\ history[2].at = history[1].at

AllPriced(h) ==
  CanonKeys(h.kind, h.tokens) \subseteq DOMAIN Val(h.body).prices

C7_Deduplicated ==
  ~IsNull(req.client) =>
    /\ CanonKeys(req.kind, req.tokens) = CanonKeys(req.kind, Val(req.client))
    /\ \A m, n \in DOMAIN req.tokens :
         CanonKey(req.kind, req.tokens[m]) = CanonKey(req.kind, req.tokens[n])
           => m = n
    /\ \A p, q \in UNION {groups[g] : g \in DOMAIN groups} :
         CanonKey(req.kind, tokensToFetch[p]) =
           CanonKey(req.kind, tokensToFetch[q]) => p = q

C7_Witness ==
  /\ ~IsNull(req.client)
  /\ Len(Val(req.client)) = 2
  /\ Val(req.client)[1].address # Val(req.client)[2].address
  /\ Len(req.tokens) = 1
  /\ Responded
  /\ DOMAIN settled = {1}

(***************************************************************************)
(* C8: one job makes at most maxRetries fetches; a 429 on attempt a is     *)
(* followed by a wait of 2^a seconds and then, while attempts remain, by   *)
(* the next fetch; the first response other than 429 is returned at once;  *)
(* when the attempts are used up fetchWithRetry throws and the job yields  *)
(* null.                                                                   *)
(***************************************************************************)
Fetches(log) == {i \in DOMAIN log : log[i].ev = "fetch"}

Failed(e) == e.ev = "reject" \/ (e.ev = "response" /\ e.arg = 429)

C9_NetworkErrorLikeRateLimit ==
  LET log == job.log IN
    /\ \A i \in DOMAIN log :
         (Failed(log[i]) /\ log[i].attempt + 1 < maxRetries /\ i + 1 < Len(log))
            => /\ log[i + 1] = Event("sleep", log[i].attempt,
                                     (2 ^ log[i].attempt) * 1000)
               /\ log[i + 2] = Event("fetch", log[i].attempt + 1, 0)
    /\ ~IsNull(job.thrown) =>
         /\ Cardinality(Fetches(log)) = maxRetries
         /\ Cardinality({i \in DOMAIN log : Failed(log[i])}) = maxRetries

C9_Witness ==
  /\ ~IsNull(job.thrown)
  /\ \E i \in DOMAIN job.log :
       /\ job.log[i].ev = "reject" /\ job.log[i].attempt = 1
       /\ job.log[i + 1] = Event("sleep", 1, 2000)
  /\ \E i \in DOMAIN job.log :
       job.log[i].ev = "response" /\ job.log[i].attempt = 0

(***************************************************************************)
(* C10: a response with a 5xx status is retried with backoff: while        *)
(* attempts remain it is followed by a wait and another fetch, and is not  *)
(* handed to the caller.                                                   *)
(***************************************************************************)
C10_ServerErrorRetried ==
  LET log == job.log IN
    \A i \in DOMAIN log :
      (log[i].ev = "response" /\ log[i].arg >= 500 /\ log[i].arg <= 599
         /\ log[i].attempt + 1 < maxRetries /\ i < Len(log))
        => log[i + 1].ev = "sleep"

(***************************************************************************)
(* The historical price locator called on its own.                         *)
(***************************************************************************)
\* the points of a returned series, around the target instant
SeriesPoints == {<<T0 + d, v>> : d \in {0 - 2, 0 - 1, 1}, v \in {10, 12}}
LocateSeries ==
  ListsUpTo(SeriesPoints, MaxPoints)
    \cup {<< <<T0 - 20 * MinuteMs, 10>>, <<T0 + 5 * MinuteMs, 12>> >>}
LocateRangeBodies ==
  {MalformedBody, ErrorBody} \cup
  {Body(TRUE, Null, Null, Some(ps)) : ps \in LocateSeries}

\* fetchWithRetry against a provider that answers every fetch alike
SteadyRuns(bodies) ==
  {fetchWithRetry([n \in 1..maxRetries |-> o], 0, Null) :
     o \in FetchOutcomes(bodies)}

Locate(address, chainId, timestamp, infoRun, rangeRun) ==
  /\ located = Null
  /\ located' =
       Some([address |-> address, chainId |-> chainId,
             timestamp |-> timestamp, infoRun |-> infoRun,
             rangeRun |-> rangeRun,
             result |-> fetchHistoricalCoinGeckoPrice(
                          address, chainId, timestamp, infoRun, rangeRun)])
  /\ UNCHANGED <<cacheVars, job, handlerVars, fxVars, clientVars, overlapVars>>

NextLocate ==
  \E address \in {AddrDai, AddrDaiMixed, AddrOther}, chainId \in ChainIds,
     infoRun \in SteadyRuns(InfoBodies),
     rangeRun \in SteadyRuns(LocateRangeBodies) :
    Locate(address, chainId, T0, infoRun, rangeRun)

SpecLocate == Init /\ [][NextLocate]_vars

(***************************************************************************)
(* The FX handlers, from one network call to the next.  A handler run is   *)
(* followed as w = [p, cache, out]: its local variables, the server cache  *)
(* and, once it has answered, the body of its response.                    *)
(***************************************************************************)
\* history: a provider of the chain was tried, with a network call or
\* without one, for requests[idx], and returned rates (Null: it failed)
Call(provider, endpoint, network, rates) ==
  [provider |-> provider, endpoint |-> endpoint, network |-> network,
   rates |-> rates, idx |-> 0]
called(w, c) ==
  [w EXCEPT !.p.calls = Append(w.p.calls, [c EXCEPT !.idx = w.p.idx])]
suspended(w, pc) == [w EXCEPT !.p.pc = pc]
responded(w, body) == [w EXCEPT !.p.pc = "idle", !.out = Some(body)]

\* the catch of the handler: 500 Internal server error
raised(w) == responded(w, [error |-> "Internal server error", status |-> 500])

\* rates[0]?.timestamp || Date.now()
firstTimestamp(rates, t) ==
  IF Len(rates) > 0 /\ rates[1].timestamp # 0 THEN rates[1].timestamp ELSE t

\* currencies || ["USD", "AUD", "GBP", "CAD"]
requestedCurrencies(currencies) ==
  IF IsNull(currencies) THEN DEFAULT_CURRENCIES ELSE Val(currencies)

RECURSIVE postLoop(_, _)
RECURSIVE startCurrent(_, _)
RECURSIVE afterCurrentPrimary(_, _, _)
RECURSIVE afterCurrentBackup(_, _, _)
RECURSIVE afterCurrent(_, _, _)
RECURSIVE afterHistorical(_, _, _)

\* getCurrentFXRates from its first line to its first network call
startCurrent(w, t) ==
  LET w1 == [w EXCEPT !.p.timestamp = t] IN
  IF w1.p.keys.oer
  THEN suspended(w1, "current-primary")
  ELSE afterCurrentPrimary(
         called(w1, Call("openexchangerates", "latest", FALSE, Null)),
         catchReturnsNull(NoRates), t)

\* afterCurrentPrimary calling the backup provider without looking for its
\* API key
afterCurrentPrimary_AlwaysCalls(w, r, t) ==
  IF r.threw THEN raised(w)
  ELSE IF ~IsNull(r.rates)
  THEN afterCurrent(w, toFXRates(w.p.currencies, Val(r.rates),
                                 "openexchangerates", w.p.timestamp), t)
  ELSE suspended(w, "current-backup")

\* getCurrentFXRates once fetchOpenExchangeRates has returned r
afterCurrentPrimary(w, r, t) ==
  IF r.threw THEN raised(w)
  ELSE IF ~IsNull(r.rates)
  THEN afterCurrent(w, toFXRates(w.p.currencies, Val(r.rates),
                                 "openexchangerates", w.p.timestamp), t)
  ELSE IF w.p.keys.era
  THEN suspended(w, "current-backup")
  ELSE afterCurrentBackup(
         called(w, Call("exchangerate-api", "latest", FALSE, Null)),
         catchReturnsNull(NoRates), t)

\* getCurrentFXRates once fetchExchangeRateAPI has returned r
afterCurrentBackup(w, r, t) ==
  IF r.threw THEN raised(w)
  ELSE IF ~IsNull(r.rates)
  THEN afterCurrent(w, toFXRates(w.p.currencies, Val(r.rates),
                                 "exchangerate-api", w.p.timestamp), t)
  ELSE afterCurrent(
         called(w, Call("static", "latest", FALSE, Some(FALLBACK_RATES))),
         toFXRates(w.p.currencies, FALLBACK_RATES, "fallback",
                   w.p.timestamp), t)

\* afterCurrent without the serverCache.set of GET
afterCurrent_NoCache(w, rates, t) ==
  IF w.p.op = "GET"
  THEN responded(w, [rates |-> rates, source |-> "api",
                     timestamp |-> firstTimestamp(rates, t)])
  ELSE afterHistorical(
         w, currentAsHistorical(
              rates, dateString(w.p.requests[w.p.idx].timestamp)), t)

\* the caller of getCurrentFXRates once it has returned rates: GET caches
\* them for 24 hours and answers, getHistoricalFXRates retags them
afterCurrent(w, rates, t) ==
  IF w.p.op = "GET"
  THEN responded([w EXCEPT !.cache =
                             cacheSet(w.cache, currentFXRates, rates, 1440, t)],
                 [rates |-> rates, source |-> "api",
                  timestamp |-> firstTimestamp(rates, t)])
  ELSE afterHistorical(
         w, currentAsHistorical(
              rates, dateString(w.p.requests[w.p.idx].timestamp)), t)

\* POST once getHistoricalFXRates has returned rates for requests[idx]
afterHistorical(w, rates, t) ==
  LET date == dateString(w.p.requests[w.p.idx].timestamp) IN
  postLoop([w EXCEPT
              !.cache = cacheSet(w.cache, historicalFXRates(date), rates,
                                 43200, t),
              !.p.fetched = w.p.fetched + 1,
              !.p.results = mapPut(w.p.results, date, rates),
              !.p.idx = w.p.idx + 1], t)

\* getHistoricalFXRates once fetchHistoricalOpenExchangeRates has returned
\* r: fetchHistoricalExchangeRateAPI makes no network call and returns null
afterHistoricalPrimary(w, r, t) ==
  IF r.threw THEN raised(w)
  ELSE IF ~IsNull(r.rates)
  THEN afterHistorical(
         w, toHistoricalFXRates(w.p.currencies, Val(r.rates),
                                "openexchangerates",
                                w.p.requests[w.p.idx].timestamp), t)
  ELSE startCurrent(
         called(w, Call("exchangerate-api", "historical", FALSE, Null)), t)

\* the for loop of POST from requests[idx] on, to its next network call
postLoop(w, t) ==
  IF w.p.idx > Len(w.p.requests)
  THEN responded(w, [rates |-> w.p.results, cached |-> w.p.cached,
                     fetched |-> w.p.fetched, total |-> Len(w.p.requests)])
  ELSE LET entry == w.p.requests[w.p.idx]
           key == historicalFXRates(dateString(entry.timestamp))
           rates == cacheGetResult(w.cache, key, t)
           w1 == [w EXCEPT !.cache = cacheGetStore(w.cache, key, t)]
       IN IF ~IsNull(rates)
          THEN postLoop([w1 EXCEPT
                           !.p.cached = w.p.cached + 1,
                           !.p.results =
                              mapPut(w.p.results, dateString(entry.timestamp),
                                     Val(rates)),
                           !.p.idx = w.p.idx + 1], t)
          ELSE LET w2 == [w1 EXCEPT !.p.currencies =
                                      requestedCurrencies(entry.currencies)]
               IN IF w2.p.keys.oer
                  THEN suspended(w2, "historical-primary")
                  ELSE afterHistoricalPrimary(
                         called(w2, Call("openexchangerates", "historical",
                                         FALSE, Null)),
                         catchReturnsNull(NoRates), t)

\* GET from its first line to its first network call
getStart(w, t) ==
  LET cached == cacheGetResult(w.cache, currentFXRates, t)
      w1 == [w EXCEPT !.cache = cacheGetStore(w.cache, currentFXRates, t)]
  IN IF ~IsNull(cached)
     THEN responded(w1, [rates |-> Val(cached), source |-> "cache",
                         timestamp |-> firstTimestamp(Val(cached), t)])
     ELSE startCurrent(w1, t)

\* the entry of fxHistory for the run w that has answered
FxServed(i, w, t) ==
  [op |-> w.p.op, keys |-> w.p.keys, request |-> w.p.request,
   at |-> w.p.at, started |-> w.p.started, end |-> t, calls |-> w.p.calls, body |-> Val(w.out)]

\* the handler instance i has run up to w
FxCommit(i, w) ==
  /\ cache' = w.cache
  /\ IF IsNull(w.out)
     THEN /\ fx' = [fx EXCEPT ![i] = w.p]
          /\ UNCHANGED fxHistory
     ELSE /\ fx' = [fx EXCEPT ![i] = FxIdle]
          /\ fxHistory' = Append(fxHistory, FxServed(i, w, now))
  /\ UNCHANGED <<now, lastSet, lastOp, jobVars, handlerVars, clientVars, overlapVars>>

\* GET /api/fx-rates?currencies=...: `currencies` is Null without the
\* parameter; keys tells which API keys process.env holds
FxGet(i, currencies, keys) ==
  /\ fx[i].pc = "idle"
  /\ FxCommit(i, getStart(
       [p |-> [FxIdle EXCEPT !.op = "GET", !.keys = keys, !.at = now,
                            !.started = Len(fxHistory),
                            !.request = currencies,
                            !.currencies = requestedCurrencies(currencies)],
        cache |-> cache, out |-> Null], now))

\* POST /api/fx-rates/historical with body {requests}
FxPost(i, requests, keys) ==
  /\ fx[i].pc = "idle"
  /\ FxCommit(i, postLoop(
       [p |-> [FxIdle EXCEPT !.op = "POST", !.keys = keys, !.at = now,
                            !.started = Len(fxHistory),
                            !.request = requests, !.requests = requests,
                            !.idx = 1],
        cache |-> cache, out |-> Null], now))

\* the network call of fetchOpenExchangeRates that the instance i waits
\* for ends as `run`
FxPrimaryAnswered(i, run) ==
  /\ fx[i].pc = "current-primary"
  /\ LET w == [p |-> fx[i], cache |-> cache, out |-> Null]
         r == catchReturnsNull(openExchangeRatesTry(run))
     IN FxCommit(i, afterCurrentPrimary(
          called(w, Call("openexchangerates", "latest", TRUE, r.rates)),
          r, now))

\* the network call of fetchExchangeRateAPI ends as `run`
FxBackupAnswered(i, run) ==
  /\ fx[i].pc = "current-backup"
  /\ LET w == [p |-> fx[i], cache |-> cache, out |-> Null]
         r == catchReturnsNull(exchangeRateAPITry(fx[i].currencies, run))
     IN FxCommit(i, afterCurrentBackup(
          called(w, Call("exchangerate-api", "latest", TRUE, r.rates)),
          r, now))

\* the network call of fetchHistoricalOpenExchangeRates ends as `run`
FxHistoricalAnswered(i, run) ==
  /\ fx[i].pc = "historical-primary"
  /\ LET w == [p |-> fx[i], cache |-> cache, out |-> Null]
         r == catchReturnsNull(openExchangeRatesTry(run))
     IN FxCommit(i, afterHistoricalPrimary(
          called(w, Call("openexchangerates", "historical", TRUE, r.rates)),
          r, now))

\* time passes: up to the TTLs of the two endpoints and beyond them
FxClockValues ==
  {0, 1440 * Minute, 1440 * Minute + MaxDrift, 43200 * Minute + MaxDrift}
FxTick ==
  /\ \E t \in FxClockValues : t > now /\ now' = t
  /\ UNCHANGED <<cache, lastSet, lastOp, jobVars, handlerVars, fxVars, clientVars, overlapVars>>

\* time passes between two requests (a network call is short against the
\* TTLs of the endpoints)
FxTickIdle ==
  /\ \A j \in Procs : fx[j].pc = "idle"
  /\ FxTick

\* the requests
KeySets == [oer : BOOLEAN, era : BOOLEAN]
CurrencyLists == {Null, Some(<<"AUD", "GBP">>)}
FxT0 == 3 * Day
FxRequest(timestamp, currencies) ==
  [timestamp |-> timestamp, currencies |-> currencies]
FxRequestLists ==
  {<<FxRequest(FxT0, Some(<<"AUD", "GBP">>))>>,
   <<FxRequest(FxT0 + Day, Null)>>,
   <<FxRequest(FxT0 + 1, Null), FxRequest(FxT0, Some(<<"AUD", "GBP">>))>>}

\* the number of requests received so far
FxReceived == Len(fxHistory) + Cardinality({j \in Procs : fx[j].pc # "idle"})

\* a request goes to the first instance that is free, and process.env is
\* the same for every request of a run
FxAccepts(i, keys) ==
  /\ \A j \in Procs : j < i => fx[j].pc # "idle"
  /\ \A j \in Procs : fx[j].pc # "idle" => fx[j].keys = keys
  /\ \A n \in DOMAIN fxHistory : fxHistory[n].keys = keys

\* GET /api/fx-rates served again and again
NextFxCurrent ==
  \/ \E i \in Procs, cs \in CurrencyLists, keys \in KeySets :
       FxReceived < MaxFxRequests /\ FxAccepts(i, keys) /\ FxGet(i, cs, keys)
  \/ \E i \in Procs : \E run \in PrimaryRuns : FxPrimaryAnswered(i, run)
  \/ \E i \in Procs : \E run \in BackupRuns : FxBackupAnswered(i, run)
  \/ FxTickIdle

SpecFxCurrent == Init /\ [][NextFxCurrent]_vars

\* POST /api/fx-rates/historical served again and again
NextFxHistorical ==
  \/ \E i \in Procs, rs \in FxRequestLists, keys \in KeySets :
       FxReceived < MaxFxPosts /\ FxAccepts(i, keys) /\ FxPost(i, rs, keys)
  \/ \E i \in Procs : \E run \in PrimaryRuns : FxPrimaryAnswered(i, run)
  \/ \E i \in Procs : \E run \in BackupRuns : FxBackupAnswered(i, run)
  \/ \E i \in Procs : \E run \in PrimaryRuns : FxHistoricalAnswered(i, run)
  \/ FxTickIdle

SpecFxHistorical == Init /\ [][NextFxHistorical]_vars

\* requests for the rates of one date that may overlap
NextFxRace ==
  \/ \E i \in Procs, ts \in {FxT0, FxT0 + 1}, keys \in KeySets :
       /\ FxReceived < MaxFxRace
       /\ FxAccepts(i, keys)
       /\ FxPost(i, <<FxRequest(ts, Null)>>, keys)
  \/ \E i \in Procs : \E run \in PrimaryRuns : FxPrimaryAnswered(i, run)
  \/ \E i \in Procs : \E run \in BackupRuns : FxBackupAnswered(i, run)
  \/ \E i \in Procs : \E run \in PrimaryRuns : FxHistoricalAnswered(i, run)
  \/ FxTickIdle

SpecFxRace == Init /\ [][NextFxRace]_vars

(***************************************************************************)
(* Two runs of the handler of POST /api/prices on the one server cache.    *)
(* A run suspends only at await Promise.allSettled: from the request to    *)
(* the start of the jobs, and from the end of a fetch to the next await,   *)
(* it runs without interruption.  The requests hold at most BATCH_SIZE     *)
(* tokens, so the loop has one group and no pacing sleep.                  *)
(***************************************************************************)
\* the cache keys of the jobs that the instance j waits for
keysInFlight(j) ==
  {cacheKey("current", serving[j].tokensToFetch[p]) : p \in serving[j].pending}

\* history: the fetchCoinGeckoPrice calls a group starts, in the order of
\* batch.map
fetchesOf(i, tf, positions) ==
  [n \in 1..Cardinality(positions) |->
     [by |-> i,
      token |-> tf[CHOOSE p \in positions :
                     Cardinality({q \in positions : q < p}) = n - 1]]]

\* POST /api/prices with body {tokens} reaches the instance i: the cache is
\* looked up and the jobs of the tokens it lacks are started.
\* inFlightElsewhere is history: the keys among them that another instance
\* is fetching at that moment
OverlapPost(i, tokens) ==
  /\ serving[i].pc = "idle"
  /\ LET chk == checkCache("current", tokens, 1, cache, <<>>, <<>>, now)
         tf == chk.tokensToFetch
         group == batch("current", tf, 0)
         elsewhere == UNION {keysInFlight(j) : j \in Procs \ {i}}
     IN /\ cache' = chk.cache
        /\ serving' = [serving EXCEPT ![i] =
             [pc |-> IF 0 < Len(tf) THEN "group" ELSE "done",
              tokens |-> tokens, tokensToFetch |-> tf,
              priceMap |-> chk.priceMap, pending |-> group,
              inFlightElsewhere |->
                {cacheKey("current", tf[p]) : p \in group} \cap elsewhere,
              body |-> IF 0 < Len(tf) THEN Null
                       ELSE Some(responseOf(tokens, tf, chk.priceMap))]]
        /\ fetches' = fetches \o fetchesOf(i, tf, group)
  /\ UNCHANGED <<now, lastSet, lastOp, jobVars, handlerVars, fxVars,
                 clientVars>>

\* the job at position p of the instance i settles, its fetch having
\* yielded `price`; the last job to settle resolves Promise.allSettled and
\* the instance responds
OverlapJobSettles(i, p, price) ==
  /\ serving[i].pc = "group"
  /\ p \in serving[i].pending
  /\ LET s == serving[i]
         tok == s.tokensToFetch[p]
         pm == IF IsNull(price) THEN s.priceMap
               ELSE mapPut(s.priceMap, responseKey("current", tok), Val(price))
         left == s.pending \ {p}
     IN /\ cache' = jobCache(cache, "current", tok, price, now)
        /\ serving' = [serving EXCEPT ![i] =
             [s EXCEPT !.priceMap = pm, !.pending = left,
                       !.pc = IF allSettled(left) THEN "done" ELSE "group",
                       !.body = IF allSettled(left)
                                THEN Some(responseOf(s.tokens, s.tokensToFetch,
                                                     pm))
                                ELSE Null]]
  /\ UNCHANGED <<now, lastSet, lastOp, jobVars, handlerVars, fxVars,
                 clientVars, fetches>>

\* the token lists of the two requests
OverlapLists == ListsUpTo(CurrentTokens, MaxOverlapTokens) \ {<<>>}

\* each instance serves one request
NextOverlap ==
  \/ \E i \in Procs : \E tokens \in OverlapLists : OverlapPost(i, tokens)
  \/ \E i \in Procs : \E p \in serving[i].pending :
       \E price \in jobPrices("current", serving[i].tokensToFetch[p]) :
         OverlapJobSettles(i, p, price)

SpecOverlap == Init /\ [][NextOverlap]_vars

(***************************************************************************)
(* The cost-basis / P&L engine and its currency conversion.  Amounts are   *)
(* whole numbers; a percentage is the exact fraction <<numerator,          *)
(* denominator>> in lowest terms.  A rate being held in hundredths, an     *)
(* amount multiplied by a rate is held in hundredths as well.              *)
(***************************************************************************)
RECURSIVE GCD(_, _)
GCD(a, b) == IF b = 0 THEN a ELSE GCD(b, a % b)

\* n / d for d > 0
Ratio(n, d) == LET g == GCD(Abs(n), d) IN <<n \div g, d \div g>>

digit(c) ==
  CASE c = "0" -> 0 [] c = "1" -> 1 [] c = "2" -> 2 [] c = "3" -> 3
    [] c = "4" -> 4 [] c = "5" -> 5 [] c = "6" -> 6 [] c = "7" -> 7
    [] c = "8" -> 8 [] c = "9" -> 9

\* parseFloat of a string of decimal digits
RECURSIVE parseFloat(_)
parseFloat(s) ==
  IF Len(s) = 0 THEN 0
  ELSE 10 * parseFloat(SubSeq(s, 1, Len(s) - 1)) + digit(s[Len(s)])

\* a Transaction as the collaborator supplies it: the P&L fields undefined
Transaction(hash, to, from, chainId, timestamp, value) ==
  [hash |-> hash, to |-> to, from |-> from, chainId |-> chainId,
   timestamp |-> timestamp, value |-> value, valueFormatted |-> value,
   historicalPriceUsd |-> Null, costBasisUsd |-> Null,
   currentValueUsd |-> Null, profitLossUsd |-> Null,
   profitLossPercentage |-> Null]

\* !x for x: number | undefined
falsy(o) == IsNull(o) \/ Val(o) = 0

\* Map.get(key)
mapGet(m, key) == IF key \in DOMAIN m THEN Some(m[key]) ELSE Null

\* tx.to || tx.from
tokenAddress(tx) == IF IsNull(tx.to) THEN tx.from ELSE Val(tx.to)

\* `${tokenAddress.toLowerCase()}_${tx.chainId}_${tx.timestamp}`
priceKey(tx) == <<toLowerCase(tokenAddress(tx)), tx.chainId, tx.timestamp>>

\* `${tokenAddress.toLowerCase()}_${tx.chainId}`
currentPriceKey(tx) == <<toLowerCase(tokenAddress(tx)), tx.chainId>>

\* enrich taking the percentage of the current value
enrich_OfCurrentValue(tx, historicalPriceUsd, currentPriceUsd) ==
  LET amount == parseFloat(tx.valueFormatted)
      costBasisUsd == amount * historicalPriceUsd
      currentValueUsd == amount * currentPriceUsd
      profitLossUsd == currentValueUsd - costBasisUsd
      profitLossPercentage ==
        IF currentValueUsd > 0
        THEN Ratio(profitLossUsd * 100, currentValueUsd) ELSE Ratio(0, 1)
  IN [tx EXCEPT !.historicalPriceUsd = Some(historicalPriceUsd),
                !.costBasisUsd = Some(costBasisUsd),
                !.currentValueUsd = Some(currentValueUsd),
                !.profitLossUsd = Some(profitLossUsd),
                !.profitLossPercentage = Some(profitLossPercentage)]

\* the "Calculate P&L" lines: the transaction with its P&L fields set
enrich(tx, historicalPriceUsd, currentPriceUsd) ==
  LET amount == parseFloat(tx.valueFormatted)
      costBasisUsd == amount * historicalPriceUsd
      currentValueUsd == amount * currentPriceUsd
      profitLossUsd == currentValueUsd - costBasisUsd
      profitLossPercentage ==
        IF costBasisUsd > 0
        THEN Ratio(profitLossUsd * 100, costBasisUsd) ELSE Ratio(0, 1)
  IN [tx EXCEPT !.historicalPriceUsd = Some(historicalPriceUsd),
                !.costBasisUsd = Some(costBasisUsd),
                !.currentValueUsd = Some(currentValueUsd),
                !.profitLossUsd = Some(profitLossUsd),
                !.profitLossPercentage = Some(profitLossPercentage)]

\* calculateTransactionPnL(transaction, currentPriceUsd), getHistoricalPrice
\* having returned historicalPriceUsd (Null: null)
calculateTransactionPnL(transaction, currentPriceUsd, historicalPriceUsd) ==
  IF transaction.timestamp = 0 \/ transaction.value = <<>>
  THEN transaction
  ELSE IF falsy(historicalPriceUsd) THEN transaction
  ELSE enrich(transaction, Val(historicalPriceUsd), currentPriceUsd)

\* enrichOne with a missing price taken as 0
enrichOne_ZeroWhenAbsent(tx, currentPrices, historicalPrices) ==
  IF tx.timestamp = 0 THEN tx
  ELSE LET historicalPriceUsd == mapGet(historicalPrices, priceKey(tx))
           currentPriceUsd == mapGet(currentPrices, currentPriceKey(tx))
       IN enrich(tx,
                 IF IsNull(historicalPriceUsd) THEN 0
                 ELSE Val(historicalPriceUsd),
                 IF IsNull(currentPriceUsd) THEN 0 ELSE Val(currentPriceUsd))

\* the callback of transactions.map in calculateBatchTransactionPnL
\* (includeTokenTransfers at its default, false)
enrichOne(tx, currentPrices, historicalPrices) ==
  IF tx.timestamp = 0 THEN tx
  ELSE LET historicalPriceUsd == mapGet(historicalPrices, priceKey(tx)) IN
       IF falsy(historicalPriceUsd) THEN tx
       ELSE LET currentPriceUsd == mapGet(currentPrices, currentPriceKey(tx))
            IN IF falsy(currentPriceUsd) THEN tx
               ELSE enrich(tx, Val(historicalPriceUsd), Val(currentPriceUsd))

\* calculateBatchTransactionPnL(transactions, currentPrices),
\* getBatchHistoricalPrices having returned historicalPrices
calculateBatchTransactionPnL(transactions, currentPrices, historicalPrices) ==
  [n \in DOMAIN transactions |->
     enrichOne(transactions[n], currentPrices, historicalPrices)]

\* the accumulators of calculatePortfolioPnLSummary before any transaction
NoTotals ==
  [totalCostBasisUsd |-> 0, totalCurrentValueUsd |-> 0,
   profitableTransactions |-> 0, lossTransactions |-> 0,
   breakEvenTransactions |-> 0, transactionCount |-> 0]

\* the callback of transactions.forEach in calculatePortfolioPnLSummary
addToTotals(acc, tx) ==
  IF ~IsNull(tx.costBasisUsd) /\ ~IsNull(tx.currentValueUsd)
  THEN LET pl == tx.profitLossUsd IN
       [totalCostBasisUsd |-> acc.totalCostBasisUsd + Val(tx.costBasisUsd),
        totalCurrentValueUsd |->
          acc.totalCurrentValueUsd + Val(tx.currentValueUsd),
        transactionCount |-> acc.transactionCount + 1,
        profitableTransactions |->
          acc.profitableTransactions
            + (IF ~IsNull(pl) /\ Val(pl) > 0 THEN 1 ELSE 0),
        lossTransactions |->
          acc.lossTransactions
            + (IF ~IsNull(pl) /\ Val(pl) < 0 THEN 1 ELSE 0),
        breakEvenTransactions |->
          acc.breakEvenTransactions
            + (IF ~IsNull(pl) /\ Val(pl) = 0 THEN 1 ELSE 0)]
  ELSE acc

RECURSIVE totalsFrom(_, _, _)
totalsFrom(transactions, idx, acc) ==
  IF idx > Len(transactions) THEN acc
  ELSE totalsFrom(transactions, idx + 1, addToTotals(acc, transactions[idx]))

\* summaryOf with the mean of the transactions' percentages (rounded down)
\* as the total percentage
summaryOf_MeanOfPercentages(acc, transactions) ==
  LET totalProfitLossUsd == acc.totalCurrentValueUsd - acc.totalCostBasisUsd
      counted == {n \in DOMAIN transactions :
                    ~IsNull(transactions[n].profitLossPercentage)}
      RECURSIVE Sum(_)
      Sum(S) == IF S = {} THEN 0
                ELSE LET n == CHOOSE m \in S : TRUE
                         r == Val(transactions[n].profitLossPercentage)
                     IN (r[1] \div r[2]) + Sum(S \ {n})
  IN [totalCostBasisUsd |-> acc.totalCostBasisUsd,
      totalCurrentValueUsd |-> acc.totalCurrentValueUsd,
      totalProfitLossUsd |-> totalProfitLossUsd,
      totalProfitLossPercentage |->
        IF counted = {} THEN Ratio(0, 1)
        ELSE Ratio(Sum(counted), Cardinality(counted)),
      transactionCount |-> acc.transactionCount,
      profitableTransactions |-> acc.profitableTransactions,
      lossTransactions |-> acc.lossTransactions,
      breakEvenTransactions |-> acc.breakEvenTransactions]

\* the end of calculatePortfolioPnLSummary: the totals derived from the sums
summaryOf(acc, transactions) ==
  LET totalProfitLossUsd == acc.totalCurrentValueUsd - acc.totalCostBasisUsd
  IN [totalCostBasisUsd |-> acc.totalCostBasisUsd,
      totalCurrentValueUsd |-> acc.totalCurrentValueUsd,
      totalProfitLossUsd |-> totalProfitLossUsd,
      totalProfitLossPercentage |->
        IF acc.totalCostBasisUsd > 0
        THEN Ratio(totalProfitLossUsd * 100, acc.totalCostBasisUsd)
        ELSE Ratio(0, 1),
      transactionCount |-> acc.transactionCount,
      profitableTransactions |-> acc.profitableTransactions,
      lossTransactions |-> acc.lossTransactions,
      breakEvenTransactions |-> acc.breakEvenTransactions]

calculatePortfolioPnLSummary(transactions) ==
  summaryOf(totalsFrom(transactions, 1, NoTotals), transactions)

\* rates.find((r) => r.targetCurrency === targetCurrency)
findRate(rates, targetCurrency) ==
  LET hits == {n \in DOMAIN rates : rates[n].targetCurrency = targetCurrency}
  IN IF hits = {} THEN Null
     ELSE Some(rates[CHOOSE n \in hits : \A m \in hits : n <= m])

convertPnLSummaryToCurrency(summary, rates, targetCurrency) ==
  IF targetCurrency = "USD" THEN summary
  ELSE LET rate == findRate(rates, targetCurrency) IN
       IF IsNull(rate) THEN summary
       ELSE [summary EXCEPT
               !.totalCostBasisUsd = summary.totalCostBasisUsd * Val(rate).rate,
               !.totalCurrentValueUsd =
                  summary.totalCurrentValueUsd * Val(rate).rate,
               !.totalProfitLossUsd =
                  summary.totalProfitLossUsd * Val(rate).rate]

\* x ? x * rate : undefined
timesIfTruthy(o, rate) == IF falsy(o) THEN Null ELSE Some(Val(o) * rate)

convertTransactionPnLToCurrency(transaction, rates, targetCurrency) ==
  IF targetCurrency = "USD" \/ falsy(transaction.profitLossUsd)
  THEN transaction
  ELSE LET rate == findRate(rates, targetCurrency) IN
       IF IsNull(rate) THEN transaction
       ELSE [transaction EXCEPT
               !.historicalPriceUsd =
                  timesIfTruthy(transaction.historicalPriceUsd, Val(rate).rate),
               !.costBasisUsd =
                  timesIfTruthy(transaction.costBasisUsd, Val(rate).rate),
               !.currentValueUsd =
                  timesIfTruthy(transaction.currentValueUsd, Val(rate).rate),
               !.profitLossUsd =
                  Some(Val(transaction.profitLossUsd) * Val(rate).rate)]

convertBatchTransactionPnLToCurrency(transactions, rates, targetCurrency) ==
  IF targetCurrency = "USD" THEN transactions
  ELSE IF IsNull(findRate(rates, targetCurrency)) THEN transactions
  ELSE [n \in DOMAIN transactions |->
          convertTransactionPnLToCurrency(transactions[n], rates,
                                          targetCurrency)]

\* the transfers of a wallet: deposits of DAI, sent from AddrOther (to: null
\* on the last two, so that tx.from is taken), before (timestamp 0) and
\* after their block timestamp is known
PnlTransactions ==
  {Transaction("h1", Some(AddrDaiMixed), AddrOther, Ethereum, T0,
               <<"1", "0">>),
   Transaction("h2", Some(AddrDaiMixed), AddrOther, Ethereum, T0, <<"3">>),
   Transaction("h3", Some(AddrDaiMixed), AddrOther, Ethereum, 0,
               <<"1", "0">>),
   Transaction("h4", Null, AddrOther, Ethereum, T0, <<"3">>),
   Transaction("h5", Null, AddrOther, Ethereum, T0, <<"0">>)}

\* the maps the price functions can have returned for them
PartialMaps(choices) ==
  UNION {{m \in [K -> UNION {choices[k] : k \in K}] :
            \A k \in K : m[k] \in choices[k]} :
         K \in SUBSET DOMAIN choices}
HistoricalPriceMaps ==
  PartialMaps([k \in {<<AddrDai, Ethereum, T0>>, <<AddrOther, Ethereum, T0>>}
                 |-> IF k[1] = AddrDai THEN {0, 2000} ELSE {2}])
CurrentPriceMaps ==
  PartialMaps([k \in {<<AddrDai, Ethereum>>, <<AddrOther, Ethereum>>}
                 |-> IF k[1] = AddrDai THEN {3200} ELSE {0, 1, 2}])

\* the rates handed to the conversions: no rate for CAD
PnlRates == toFXRates(<<"AUD", "GBP">>, FALLBACK_RATES, "fallback", 0)
PnlCurrencies == {"USD", "AUD", "CAD"}

\* what the page does with the results of the engine
PnlRun(op, transactions, currentPrices, historicalPrices, enriched, rates, targetCurrency) ==
  LET summary == calculatePortfolioPnLSummary(enriched)
      converted ==
        convertBatchTransactionPnLToCurrency(enriched, rates, targetCurrency)
  IN [op |-> op, transactions |-> transactions,
      currentPrices |-> currentPrices, historicalPrices |-> historicalPrices,
      rates |-> rates, targetCurrency |-> targetCurrency,
      enriched |-> enriched, summary |-> summary,
      convertedSummary |->
        convertPnLSummaryToCurrency(summary, rates, targetCurrency),
      converted |-> converted,
      convertedEach |->
        [n \in DOMAIN enriched |->
           convertTransactionPnLToCurrency(enriched[n], rates,
                                           targetCurrency)],
      summaryOfConverted |-> calculatePortfolioPnLSummary(converted)]

\* the P&L of a list of transfers, its summary and their conversion
PortfolioPnL(transactions, currentPrices, historicalPrices, rates, targetCurrency) ==
  /\ pnl = Null
  /\ pnl' = Some(PnlRun("batch", transactions, currentPrices,
                        historicalPrices,
                        calculateBatchTransactionPnL(
                          transactions, currentPrices, historicalPrices),
                        rates, targetCurrency))
  /\ UNCHANGED <<cacheVars, jobVars, handlerVars, fxVars, clientCall,
               overlapVars>>

\* the P&L of one transfer, getHistoricalPrice having returned
\* historicalPriceUsd; historicalPrices records the price the function got
\* (none when it returned before asking)
TransactionPnL(transaction, currentPriceUsd, historicalPriceUsd, rates, targetCurrency) ==
  /\ pnl = Null
  /\ pnl' = Some(PnlRun("single", <<transaction>>,
                        [k \in {currentPriceKey(transaction)}
                           |-> currentPriceUsd],
                        IF \/ transaction.timestamp = 0
                           \/ transaction.value = <<>>
                           \/ IsNull(historicalPriceUsd)
                        THEN <<>>
                        ELSE [k \in {priceKey(transaction)}
                                |-> Val(historicalPriceUsd)],
                        <<calculateTransactionPnL(
                            transaction, currentPriceUsd, historicalPriceUsd)>>,
                        rates, targetCurrency))
  /\ UNCHANGED <<cacheVars, jobVars, handlerVars, fxVars, clientCall,
               overlapVars>>

NextPnl ==
  \/ \E transactions \in ListsUpTo(PnlTransactions, MaxTxs),
        currentPrices \in CurrentPriceMaps,
        historicalPrices \in HistoricalPriceMaps,
        targetCurrency \in PnlCurrencies :
       PortfolioPnL(transactions, currentPrices, historicalPrices, PnlRates,
                    targetCurrency)
  \/ \E transaction \in PnlTransactions, currentPriceUsd \in {0, 2, 3200},
        historicalPriceUsd \in {Null, Some(0), Some(2), Some(2000)},
        targetCurrency \in PnlCurrencies :
       TransactionPnL(transaction, currentPriceUsd, historicalPriceUsd,
                      PnlRates, targetCurrency)

SpecPnl == Init /\ [][NextPnl]_vars

(***************************************************************************)
(* The client functions as seen from their caller: what they return for    *)
(* each way the request to the application's own endpoint can end.         *)
(***************************************************************************)
\* how the body of an async function ends: it returns value, or it throws
\* (the promise rejects)
Returned(value) == [rejected |-> FALSE, value |-> value]
Rejected == [rejected |-> TRUE, value |-> <<>>]

\* try { body } whose catch block throws the error again
tryCatch_Rethrow(body, handler) == body

\* try { body } catch (error) { handler }
tryCatch(body, handler) == IF body.rejected THEN handler ELSE body

\* a body of a response of the application's endpoints, as the client reads
\* it: json is FALSE when response.json() rejects; prices is `data.prices`
\* and rates `data.rates` (Null: undefined)
ApiBody(json, prices, rates) == [json |-> json, prices |-> prices, rates |-> rates]

\* getCacheKey.price: `price_${tokenAddress}_${chainId}`
sessionPriceKey(address, chainId) == <<"price", address, chainId>>

\* the try block of getBatchTokenPrices and of getBatchHistoricalPrices from
\* the moment fetch settles with outcome o: the priceMap it fills
pricesOfApiResponse(o) ==
  IF o.kind = "reject" THEN Rejected
  ELSE IF ~ok(o) THEN Rejected
  ELSE IF ~o.body.json THEN Rejected
  ELSE IF IsNull(o.body.prices) THEN Rejected
  ELSE Returned(Val(o.body.prices))

\* sessionStorage after the forEach of getBatchTokenPrices over the entries
\* of `prices`: each price is stored under the address of its response key
sessionAfterPrices(session, prices) ==
  LET keys == {sessionPriceKey(k[1], k[2]) : k \in DOMAIN prices}
      priceAt(sk) == prices[CHOOSE k \in DOMAIN prices :
                              sessionPriceKey(k[1], k[2]) = sk]
  IN [sk \in DOMAIN session \cup keys |->
        IF sk \in keys THEN priceAt(sk) ELSE session[sk]]

\* the catch block of getBatchTokenPrices: the prices sessionStorage holds
\* for the tokens, under the lower-case response keys
pricesFromSession(uniqueList, session) ==
  LET hits == {n \in DOMAIN uniqueList :
                 sessionPriceKey(uniqueList[n].address, uniqueList[n].chainId)
                   \in DOMAIN session}
      keys == {responseKey("current", uniqueList[n]) : n \in hits}
      last(k) == CHOOSE n \in hits :
                   /\ responseKey("current", uniqueList[n]) = k
                   /\ \A m \in hits :
                        responseKey("current", uniqueList[m]) = k => m <= n
  IN [k \in keys |->
        session[sessionPriceKey(uniqueList[last(k)].address,
                                uniqueList[last(k)].chainId)]]

\* getBatchTokenPrices(tokens), its fetch settling with outcome o
getBatchTokenPrices(tokens, o, session) ==
  LET unique == uniqueTokens("current", tokens) IN
    IF Len(unique) = 0 THEN Returned(<<>>)
    ELSE tryCatch(pricesOfApiResponse(o),
                  Returned(pricesFromSession(unique, session)))

\* getBatchHistoricalPrices(requests), its fetch settling with outcome o
getBatchHistoricalPrices(requests, o) ==
  LET uniqueRequests == uniqueTokens("historical", requests) IN
    IF Len(uniqueRequests) = 0 THEN Returned(<<>>)
    ELSE tryCatch(pricesOfApiResponse(o), Returned(<<>>))

\* the try block of convertHistoricalPnLToCurrency from the moment fetch
\* settles with outcome o
convertedOfApiResponse(amountUsd, timestamp, targetCurrency, o) ==
  IF o.kind = "reject" THEN Rejected
  ELSE IF ~ok(o) THEN Rejected
  ELSE IF ~o.body.json THEN Rejected
  ELSE IF IsNull(o.body.rates) THEN Rejected
  ELSE IF dateString(timestamp) \notin DOMAIN Val(o.body.rates) THEN Rejected
  ELSE LET rate == findRate(Val(o.body.rates)[dateString(timestamp)],
                            targetCurrency)
       IN IF IsNull(rate) THEN Rejected
          ELSE Returned(amountUsd * Val(rate).rate)

\* convertHistoricalPnLToCurrency(amountUsd, timestamp, targetCurrency)
convertHistoricalPnLToCurrency(amountUsd, timestamp, targetCurrency, o) ==
  IF targetCurrency = "USD" THEN Returned(amountUsd)
  ELSE tryCatch(convertedOfApiResponse(amountUsd, timestamp, targetCurrency, o),
                Returned(amountUsd))

\* the bodies the price endpoints can answer a request for `list` with
ApiPriceBodies(kind, list) ==
  {ApiBody(FALSE, Null, Null), ApiBody(TRUE, Null, Null)} \cup
  {ApiBody(TRUE, Some(m), Null) :
     m \in PartialMaps([k \in {responseKey(kind, list[n]) : n \in DOMAIN list}
                          |-> Prices])}

\* the `rates` object of a response of POST /api/fx-rates/historical
ApiRatesByDate ==
  {<<>>} \cup
  {[d \in {date} |-> toHistoricalFXRates(currencies, table, "openexchangerates",
                                          date * Day)] :
     date \in {dateString(FxT0), dateString(FxT0 + Day)},
     currencies \in {<<>>, <<"AUD", "GBP">>, DEFAULT_CURRENCIES},
     table \in RateTables}
ApiRateBodies ==
  {ApiBody(FALSE, Null, Null), ApiBody(TRUE, Null, Null)} \cup
  {ApiBody(TRUE, Null, Some(r)) : r \in ApiRatesByDate}

\* what sessionStorage can hold when getBatchTokenPrices is called
Sessions ==
  PartialMaps([sk \in {sessionPriceKey(AddrDai, Ethereum),
                        sessionPriceKey(AddrOther, Arbitrum)} |-> {1}])

\* a call of getBatchTokenPrices or getBatchHistoricalPrices
ClientBatch(kind, list, o, session) ==
  /\ clientCall = Null
  /\ LET result == IF kind = "current"
                   THEN getBatchTokenPrices(list, o, session)
                   ELSE getBatchHistoricalPrices(list, o)
         fetched == Len(uniqueTokens(kind, list)) # 0
         stored == /\ kind = "current"
                   /\ fetched
                   /\ ~pricesOfApiResponse(o).rejected
     IN clientCall' =
          Some([fn |-> kind, list |-> list, outcome |-> o,
                fetched |-> fetched, session |-> session, result |-> result,
                sessionAfter |->
                  IF stored THEN sessionAfterPrices(session, result.value)
                  ELSE session])
  /\ UNCHANGED <<cacheVars, jobVars, handlerVars, fxVars, pnl, overlapVars>>

\* a call of convertHistoricalPnLToCurrency
ClientConvert(amountUsd, timestamp, targetCurrency, o) ==
  /\ clientCall = Null
  /\ clientCall' =
       Some([fn |-> "convert",
             list |-> <<[amountUsd |-> amountUsd, timestamp |-> timestamp,
                         targetCurrency |-> targetCurrency]>>,
             outcome |-> o, fetched |-> targetCurrency # "USD",
             session |-> <<>>,
             result |-> convertHistoricalPnLToCurrency(
                          amountUsd, timestamp, targetCurrency, o),
             sessionAfter |-> <<>>])
  /\ UNCHANGED <<cacheVars, jobVars, handlerVars, fxVars, pnl, overlapVars>>

NextClient ==
  \/ \E kind \in Kinds : \E list \in ListsUpTo(Tokens(kind), MaxLen) :
       \E o \in FetchOutcomes(ApiPriceBodies(kind, list)), session \in Sessions :
         ClientBatch(kind, list, o, session)
  \/ \E amountUsd \in {0, 100}, timestamp \in {FxT0, FxT0 + 1},
        targetCurrency \in {"USD", "AUD", "CAD"},
        o \in FetchOutcomes(ApiRateBodies) :
       ClientConvert(amountUsd, timestamp, targetCurrency, o)

SpecClient == Init /\ [][NextClient]_vars

(***************************************************************************)
(* C11: group i+1 never starts before the pacing delay that follows group  *)
(* i has elapsed, and a job of group i that is in its retry loop does not  *)
(* hold back group i+1: the handler does not stay waiting on a group whose *)
(* unsettled jobs are all retrying.                                        *)
(***************************************************************************)
\* a later group is started by this step
GroupStarts == Len(groups) > 0 /\ Len(groups') = Len(groups) + 1

\* every job the handler is waiting for is in its retry loop
AllRetrying == pending # {} /\ \A p \in pending : attempts[p] > 0

C11_RetriesDoNotHoldBack ==
  /\ (/\ hpc = "group"
      /\ loopIndex + BATCH_SIZE(req.kind) < Len(tokensToFetch)) => ~AllRetrying
  /\ (hpc = "delay" \/ (hpc = "group" /\ Len(groups) > 1)) =>
        Len(delays) >= Len(groups) - 1

\* C11 as amended: a group starts when the pacing delay after the group
\* before it is over, and that delay starts when every job of that group
\* has settled, its retries included
C11_GroupsInOrder ==
  [][/\ GroupStarts =>
          /\ hpc = "delay"
          /\ Len(delays) = Len(groups)
          /\ pending = {}
          /\ DOMAIN settled = UNION {groups[g] : g \in DOMAIN groups}
     /\ (hpc = "group" /\ hpc' = "delay") =>
          /\ pending' = {}
          /\ groups[Len(groups)] \subseteq DOMAIN settled'
          /\ delays' = Append(delays, DELAY_MS(req.kind))]_vars

C11_Witness ==
  /\ Len(groups) = 2
  /\ hpc = "group"
  /\ Len(delays) = 1
  /\ \E p \in groups[1] : ~IsNull(settled[p])
  /\ \E p \in pending : attempts[p] = 2

(***************************************************************************)
(* Vocabulary of the claims about the FX endpoints.                        *)
(***************************************************************************)
\* the answers to GET /api/fx-rates and to POST /api/fx-rates/historical
FxGets == {n \in DOMAIN fxHistory : fxHistory[n].op = "GET"}
FxPosts == {n \in DOMAIN fxHistory : fxHistory[n].op = "POST"}
IsError(body) == "error" \in DOMAIN body

\* the request answered m-th was received after the n-th answer was sent
Follows(m, n) == n < m /\ fxHistory[m].started >= n

\* the calls of the chain of getCurrentFXRates made for requests[idx]
LatestCalls(h, idx) ==
  SelectSeq(h.calls, LAMBDA c : c.endpoint = "latest" /\ c.idx = idx)
HistoricalCalls(h, idx) ==
  SelectSeq(h.calls, LAMBDA c : c.endpoint = "historical" /\ c.idx = idx)

\* the provenance that goes with a provider of the chain
SourceOf(provider) == IF provider = "static" THEN "fallback" ELSE provider

(***************************************************************************)
(* C12: getCurrentFXRates never raises, whatever the providers do, and     *)
(* when the primary and the backup provider both fail every rate it        *)
(* returns has source "fallback" and the rate of FALLBACK_RATES.           *)
(***************************************************************************)
C12_NeverRaises ==
  \A n \in FxGets :
    LET h == fxHistory[n]
        cs == LatestCalls(h, 0)
    IN /\ ~IsError(h.body)
       /\ (/\ h.body.source = "api"
           /\ \E k \in DOMAIN cs :
                cs[k].provider = "openexchangerates" /\ IsNull(cs[k].rates)
           /\ \E k \in DOMAIN cs :
                cs[k].provider = "exchangerate-api" /\ IsNull(cs[k].rates))
          => /\ Len(h.body.rates) = Len(requestedCurrencies(h.request))
             /\ \A k \in DOMAIN h.body.rates :
                  /\ h.body.rates[k].source = "fallback"
                  /\ h.body.rates[k].rate =
                       FALLBACK_RATES[h.body.rates[k].targetCurrency]

C12_Witness ==
  \E n \in FxGets :
    LET h == fxHistory[n] IN
      /\ h.keys = [oer |-> TRUE, era |-> TRUE]
      /\ Len(h.calls) = 3
      /\ h.calls[1].network /\ h.calls[2].network
      /\ Len(h.body.rates) = 4
      /\ h.body.rates[2].source = "fallback"
      /\ h.body.rates[2].rate = 154

(***************************************************************************)
(* C13: the chain tries the primary provider, then the backup, then the    *)
(* static table, each only after the one before it failed; a provider      *)
(* whose API key is not configured fails at once with no network call and  *)
(* the chain goes on to the next.                                          *)
(***************************************************************************)
C13_OrderedFallthrough ==
  \A n \in FxGets :
    LET h == fxHistory[n]
        cs == h.calls
        order == <<"openexchangerates", "exchangerate-api", "static">>
    IN (~IsError(h.body) /\ h.body.source = "api") =>
         /\ Len(cs) \in 1..3
         /\ \A k \in DOMAIN cs :
              /\ cs[k].provider = order[k]
              /\ cs[k].endpoint = "latest"
              /\ k < Len(cs) => IsNull(cs[k].rates)
              /\ k = Len(cs) => ~IsNull(cs[k].rates)
         /\ ~h.keys.oer => ~cs[1].network /\ Len(cs) >= 2
         /\ (~h.keys.era /\ Len(cs) >= 2) => ~cs[2].network /\ Len(cs) = 3
         /\ h.keys.oer => cs[1].network
         /\ (h.keys.era /\ Len(cs) >= 2) => cs[2].network
         /\ \A k \in DOMAIN h.body.rates :
              h.body.rates[k].source = SourceOf(cs[Len(cs)].provider)

C13_Witness ==
  \E n \in FxGets :
    LET h == fxHistory[n] IN
      /\ h.keys = [oer |-> FALSE, era |-> TRUE]
      /\ Len(h.calls) = 2
      /\ ~h.calls[1].network
      /\ h.calls[2].network
      /\ h.body.rates[1].source = "exchangerate-api"

DateOf(n) == dateString(fxHistory[n].request[1].timestamp)

C15_ImmutableOnceCached ==
  \A n \in FxPosts : \A m \in FxPosts :
    (/\ Len(fxHistory[n].request) = 1 /\ Len(fxHistory[m].request) = 1
     /\ ~IsError(fxHistory[n].body) /\ ~IsError(fxHistory[m].body)
     /\ fxHistory[n].body.fetched = 1
     /\ Follows(m, n)
     /\ DateOf(m) = DateOf(n)
     /\ fxHistory[m].at - fxHistory[n].end <= 43200 * Minute) =>
       /\ fxHistory[m].body.rates[DateOf(m)] =
            fxHistory[n].body.rates[DateOf(n)]
       /\ fxHistory[m].body.cached = 1
       /\ fxHistory[m].body.fetched = 0

(***************************************************************************)
(* C16: when no provider supplies the historical rates of the date,        *)
(* getHistoricalFXRates returns, for each requested currency, the rate     *)
(* that getCurrentFXRates resolves, with source "fallback" whatever        *)
(* provider that rate came from and with the date asked for; it does not   *)
(* raise.                                                                  *)
(***************************************************************************)
\* the entries of the request answered n-th for which the historical
\* providers were tried and all failed
Unavailable(n) ==
  {idx \in DOMAIN fxHistory[n].request :
     /\ HistoricalCalls(fxHistory[n], idx) # <<>>
     /\ \A k \in DOMAIN HistoricalCalls(fxHistory[n], idx) :
          IsNull(HistoricalCalls(fxHistory[n], idx)[k].rates)}

C16_CurrentRateAsFallback ==
  \A n \in FxPosts :
    /\ ~IsError(fxHistory[n].body)
    /\ \A idx \in Unavailable(n) :
         LET h == fxHistory[n]
             date == dateString(h.request[idx].timestamp)
             currencies == requestedCurrencies(h.request[idx].currencies)
             cur == LatestCalls(h, idx)
             rs == h.body.rates[date]
         IN /\ cur # <<>>
            /\ ~IsNull(cur[Len(cur)].rates)
            /\ Len(rs) = Len(currencies)
            /\ \A k \in DOMAIN rs :
                 /\ rs[k].targetCurrency = currencies[k]
                 /\ rs[k].rate =
                      rateOrFallback(Val(cur[Len(cur)].rates), currencies[k])
                 /\ rs[k].source = "fallback"
                 /\ rs[k].date = date

C16_Witness ==
  \E n \in FxPosts :
    LET h == fxHistory[n] IN
      /\ h.keys = [oer |-> TRUE, era |-> TRUE]
      /\ Len(h.request) = 1
      /\ Unavailable(n) = {1}
      /\ Len(h.calls) = 4
      /\ h.calls[1].network
      /\ h.calls[4].provider = "exchangerate-api"
      /\ h.body.rates[DateOf(n)][2].rate = 150
      /\ h.body.rates[DateOf(n)][2].source = "fallback"

(***************************************************************************)
(* C17: with no API key configured, the answer to a historical request     *)
(* {timestamp: T, currencies: C} on a cold cache holds, for the date of T, *)
(* records whose timestamp is T, whose date is the date of T and whose     *)
(* source is "fallback", and reports cached 0, fetched 1, total 1.         *)
(***************************************************************************)
C17_RecordsCarryRequestedTimestamp ==
  \A n \in FxPosts :
    LET h == fxHistory[n] IN
    (/\ n = 1 /\ h.started = 0
     /\ h.keys = [oer |-> FALSE, era |-> FALSE]
     /\ Len(h.request) = 1) =>
       /\ ~IsError(h.body)
       /\ h.body.cached = 0 /\ h.body.fetched = 1 /\ h.body.total = 1
       /\ DOMAIN h.body.rates = {DateOf(n)}
       /\ \A k \in DOMAIN h.body.rates[DateOf(n)] :
            /\ h.body.rates[DateOf(n)][k].timestamp = h.request[1].timestamp
            /\ h.body.rates[DateOf(n)][k].date = DateOf(n)
            /\ h.body.rates[DateOf(n)][k].source = "fallback"

(***************************************************************************)
(* C18: GET /api/fx-rates?currencies=X answers with the rates of exactly   *)
(* the currencies X, in every request, whatever was served before it.      *)
(***************************************************************************)
C18_ExactlyRequestedCurrencies ==
  \A n \in FxGets :
    LET h == fxHistory[n] IN
      /\ ~IsError(h.body)
      /\ [k \in DOMAIN h.body.rates |-> h.body.rates[k].targetCurrency] =
           requestedCurrencies(h.request)

(***************************************************************************)
(* C19: for a non-empty series the locator returns the value of a point    *)
(* whose distance to the target instant is the least of the whole series,  *)
(* the first such point in series order, without interpolation (the series *)
(* [(t-20min, 10), (t+5min, 12)] gives 12); for an empty or missing series *)
(* it returns absent.                                                      *)
(***************************************************************************)
\* the series in the 200 response to the range request of the latest call,
\* Null when the body has none
SeriesReturned ==
  LET l == Val(located) IN
    IF /\ l.result.rangeRequested
       /\ IsNull(l.rangeRun.thrown)
       /\ ok(Val(l.rangeRun.response))
       /\ Val(l.rangeRun.response).body.json
    THEN Some(Val(l.rangeRun.response).body.prices)
    ELSE Null

C19_NearestNeighbour ==
  (~IsNull(located) /\ ~IsNull(SeriesReturned)) =>
    LET l == Val(located)
        series == Val(SeriesReturned)
    IN IF IsNull(series) \/ Val(series) = <<>>
       THEN l.result.price = Null
       ELSE LET ps == Val(series)
                Dist(k) == Abs(ps[k][1] - l.timestamp)
            IN \E k \in DOMAIN ps :
                 /\ \A j \in DOMAIN ps : Dist(k) <= Dist(j)
                 /\ \A j \in 1..(k - 1) : Dist(j) > Dist(k)
                 /\ l.result.price = Some(ps[k][2])

C19_Witness ==
  /\ ~IsNull(located)
  /\ SeriesReturned =
       Some(Some(<< <<T0 - 20 * MinuteMs, 10>>, <<T0 + 5 * MinuteMs, 12>> >>))
  /\ Val(located).result.price = Some(12)

(***************************************************************************)
(* C20: for an asset that is not in the well-known table, when the lookup  *)
(* of its id by contract address fails (a response that is not OK, or an   *)
(* error after the bounded retries) the locator returns absent and does    *)
(* not request a price series, and the lookup made no more than            *)
(* maxRetries fetches.                                                     *)
(***************************************************************************)
LookupFailed ==
  LET l == Val(located) IN
    /\ toLowerCase(l.address) \notin DOMAIN WELL_KNOWN_TOKENS
    /\ \/ ~IsNull(l.infoRun.thrown)
       \/ ~ok(Val(l.infoRun.response))

C20_ResolutionIsTerminal ==
  (~IsNull(located) /\ LookupFailed) =>
    LET l == Val(located) IN
      /\ l.result.infoRequested
      /\ ~l.result.rangeRequested
      /\ l.result.price = Null
      /\ l.infoRun.fetches <= maxRetries

C20_Witness ==
  /\ ~IsNull(located)
  /\ LookupFailed
  /\ ~IsNull(Val(located).infoRun.thrown)
  /\ Val(located).infoRun.fetches = maxRetries
  /\ IsNull(Val(located).rangeRun.thrown)
  /\ ok(Val(Val(located).rangeRun.response))
  /\ Val(located).result.price = Null

(***************************************************************************)
(* C21: for every transfer with quantity q, a present historical price h   *)
(* and a present current price c, the engine yields costBasisUsd = q*h,    *)
(* currentValueUsd = q*c, profitLossUsd = currentValueUsd - costBasisUsd   *)
(* and profitLossPercentage = profitLossUsd / costBasisUsd * 100 when      *)
(* costBasisUsd > 0, and 0 otherwise.                                      *)
(***************************************************************************)
\* the quantity and the prices of the n-th transfer of the latest run
QuantityOf(n) == parseFloat(Val(pnl).transactions[n].valueFormatted)
HistoricalOf(n) ==
  mapGet(Val(pnl).historicalPrices, priceKey(Val(pnl).transactions[n]))
CurrentOf(n) ==
  mapGet(Val(pnl).currentPrices, currentPriceKey(Val(pnl).transactions[n]))

\* pct is the fraction part / whole * 100 when whole > 0, and 0 otherwise
\* (n / d = p / w when d divides w and n * (w / d) = p)
IsPercentage(pct, part, whole) ==
  /\ ~IsNull(pct)
  /\ Val(pct)[2] > 0
  /\ IF whole > 0
     THEN /\ whole % Val(pct)[2] = 0
          /\ Val(pct)[1] * (whole \div Val(pct)[2]) = part * 100
     ELSE Val(pct)[1] = 0

\* the record e carries the P&L of q units bought at h and now worth c each
HasPnL(e, q, h, c) ==
  /\ e.costBasisUsd = Some(q * h)
  /\ e.currentValueUsd = Some(q * c)
  /\ e.profitLossUsd = Some(q * c - q * h)
  /\ IsPercentage(e.profitLossPercentage, q * c - q * h, q * h)

Priced == {n \in DOMAIN Val(pnl).enriched :
             /\ ~IsNull(Val(pnl).enriched[n].costBasisUsd)
             /\ ~IsNull(Val(pnl).enriched[n].currentValueUsd)}

\* the sum of the values f[n] for n in S
RECURSIVE SumOver(_, _)
SumOver(S, f) ==
  IF S = {} THEN 0
  ELSE LET n == CHOOSE m \in S : TRUE IN f[n] + SumOver(S \ {n}, f)

CostBases == [n \in Priced |-> Val(Val(pnl).enriched[n].costBasisUsd)]
CurrentValues == [n \in Priced |-> Val(Val(pnl).enriched[n].currentValueUsd)]

PriceAbsent(n) == IsNull(HistoricalOf(n)) \/ IsNull(CurrentOf(n))

C22_AbsentPriceLeavesUndefined ==
  (~IsNull(pnl) /\ Val(pnl).op = "batch") =>
    LET r == Val(pnl) IN
      /\ Len(r.enriched) = Len(r.transactions)
      /\ \A n \in DOMAIN r.transactions :
           PriceAbsent(n) =>
             /\ r.enriched[n].hash = r.transactions[n].hash
             /\ IsNull(r.enriched[n].costBasisUsd)
             /\ IsNull(r.enriched[n].currentValueUsd)
             /\ IsNull(r.enriched[n].profitLossUsd)
             /\ IsNull(r.enriched[n].profitLossPercentage)
             /\ n \notin Priced
      /\ r.summary.transactionCount = Cardinality(Priced)
      /\ r.summary.totalCostBasisUsd = SumOver(Priced, CostBases)
      /\ r.summary.totalCurrentValueUsd = SumOver(Priced, CurrentValues)

\* a priced transfer after one whose current price is absent
C22_Witness ==
  /\ ~IsNull(pnl)
  /\ Val(pnl).op = "batch"
  /\ Len(Val(pnl).transactions) = 2
  /\ ~IsNull(HistoricalOf(1)) /\ IsNull(CurrentOf(1))
  /\ IsNull(Val(pnl).enriched[1].costBasisUsd)
  /\ Priced = {2}
  /\ Val(pnl).summary.transactionCount = 1
  /\ Val(pnl).summary.totalCostBasisUsd = 20000

(***************************************************************************)
(* C23: totalCostBasisUsd and totalCurrentValueUsd are the sums of         *)
(* costBasisUsd and of currentValueUsd over exactly the transfers where    *)
(* both are defined; totalProfitLossUsd is their difference and            *)
(* totalProfitLossPercentage is totalProfitLossUsd / totalCostBasisUsd *   *)
(* 100 (0 when totalCostBasisUsd <= 0): it comes from the sums, not from   *)
(* the percentages of the transfers.                                       *)
(***************************************************************************)
C23_TotalsFromSums ==
  ~IsNull(pnl) =>
    LET s == Val(pnl).summary IN
      /\ s.totalCostBasisUsd = SumOver(Priced, CostBases)
      /\ s.totalCurrentValueUsd = SumOver(Priced, CurrentValues)
      /\ s.totalProfitLossUsd = s.totalCurrentValueUsd - s.totalCostBasisUsd
      /\ IsPercentage(Some(s.totalProfitLossPercentage),
                      s.totalProfitLossUsd, s.totalCostBasisUsd)

\* a gain of 60% on 20000 and a loss of 50% on 6: 59.97...% in total
C23_Witness ==
  /\ ~IsNull(pnl)
  /\ Len(Val(pnl).enriched) = 2
  /\ Val(pnl).enriched[1].profitLossPercentage = Some(<<60, 1>>)
  /\ Val(pnl).enriched[2].profitLossPercentage = Some(<<0 - 50, 1>>)
  /\ Val(pnl).summary.totalCostBasisUsd = 20006
  /\ Val(pnl).summary.totalCurrentValueUsd = 32003
  /\ Val(pnl).summary.totalProfitLossUsd = 11997
  /\ Val(pnl).summary.totalProfitLossPercentage = Ratio(1199700, 20006)

(***************************************************************************)
(* C24: a conversion to a target currency never changes a percentage:      *)
(* convertPnLSummaryToCurrency and convertTransactionPnLToCurrency return  *)
(* a record whose percentage equals the input's, while its absolute        *)
(* monetary fields are the input's multiplied by the rate of the currency. *)
(***************************************************************************)
\* the rate found for the target currency of the latest run, when it is
\* not USD
RateOfRun ==
  IF Val(pnl).targetCurrency = "USD" THEN Null
  ELSE findRate(Val(pnl).rates, Val(pnl).targetCurrency)

\* the field of `after` is the field of `before` multiplied by rate
Multiplied(before, after, rate) ==
  IsNull(before) \/ after = Some(Val(before) * rate)

C24_ConversionKeepsPercentages ==
  ~IsNull(pnl) =>
    LET r == Val(pnl) IN
      /\ r.convertedSummary.totalProfitLossPercentage
           = r.summary.totalProfitLossPercentage
      /\ \A n \in DOMAIN r.enriched :
           r.convertedEach[n].profitLossPercentage
             = r.enriched[n].profitLossPercentage
      /\ ~IsNull(RateOfRun) =>
           LET rate == Val(RateOfRun).rate IN
             /\ r.convertedSummary.totalCostBasisUsd
                  = r.summary.totalCostBasisUsd * rate
             /\ r.convertedSummary.totalCurrentValueUsd
                  = r.summary.totalCurrentValueUsd * rate
             /\ r.convertedSummary.totalProfitLossUsd
                  = r.summary.totalProfitLossUsd * rate
             /\ \A n \in DOMAIN r.enriched :
                  /\ Multiplied(r.enriched[n].costBasisUsd,
                                r.convertedEach[n].costBasisUsd, rate)
                  /\ Multiplied(r.enriched[n].currentValueUsd,
                                r.convertedEach[n].currentValueUsd, rate)
                  /\ Multiplied(r.enriched[n].profitLossUsd,
                                r.convertedEach[n].profitLossUsd, rate)

(***************************************************************************)
(* C25: whatever the HTTP call does (network error, status that is not OK, *)
(* malformed body), getBatchTokenPrices and getBatchHistoricalPrices       *)
(* return a map, possibly empty or partial, and                            *)
(* convertHistoricalPnLToCurrency returns a number, the unconverted USD    *)
(* amount on failure; none of them rejects.                                *)
(***************************************************************************)
\* the request of the latest client call failed: network error, status not
\* OK, or a body that cannot be read as JSON
RequestFailed ==
  LET o == Val(clientCall).outcome IN
    \/ o.kind = "reject"
    \/ ~ok(o)
    \/ ~o.body.json

C25_NothingRejects ==
  ~IsNull(clientCall) =>
    LET c == Val(clientCall) IN
      /\ ~c.result.rejected
      /\ c.fn \in {"current", "historical"} =>
           /\ DOMAIN c.result.value
                \subseteq {responseKey(c.fn, c.list[n]) : n \in DOMAIN c.list}
           /\ \A k \in DOMAIN c.result.value : c.result.value[k] \in Nat
           /\ (c.fn = "historical" /\ RequestFailed) => c.result.value = <<>>
      /\ c.fn = "convert" =>
           /\ c.result.value \in Nat
           /\ RequestFailed => c.result.value = c.list[1].amountUsd

\* the request of getBatchTokenPrices meets a network error and the prices
\* come from sessionStorage
C25_Witness ==
  /\ ~IsNull(clientCall)
  /\ Val(clientCall).fn = "current"
  /\ Val(clientCall).fetched
  /\ Val(clientCall).outcome.kind = "reject"
  /\ ~Val(clientCall).result.rejected
  /\ Val(clientCall).result.value # <<>>

(***************************************************************************)
(* C26: the server cache is written on success only.  A job whose fetch    *)
(* yields no price leaves the cache as it was, so that the next request    *)
(* for a key that got no price misses the cache and starts a job for it; a *)
(* job that yields a price writes one entry, the one of its own key.       *)
(***************************************************************************)
\* this step settles the job at position p
Settles(p) ==
  /\ hpc = "group"
  /\ p \in pending
  /\ pending' = pending \ {p}
  /\ p \in DOMAIN settled'

\* this step receives the second request of the run
SecondRequest == Len(history) = 1 /\ Len(history') = 2

C26_CacheWrittenOnSuccessOnly ==
  [][/\ \A p \in pending :
          Settles(p) =>
            LET key == cacheKey(req.kind, tokensToFetch[p]) IN
              IF IsNull(settled'[p]) THEN cache' = cache
              ELSE /\ DOMAIN cache' = DOMAIN cache \cup {key}
                   /\ cache'[key].data = Val(settled'[p])
                   /\ \A k \in DOMAIN cache : k # key => cache'[k] = cache[k]
     /\ SecondRequest =>
          \A n \in DOMAIN req'.tokens :
            responseKey(req'.kind, req'.tokens[n])
                \notin DOMAIN Val(history[1].body).prices
              => \E q \in DOMAIN tokensToFetch' :
                   tokensToFetch'[q] = req'.tokens[n]]_vars

\* the first request got a price for one key and none for the other, and
\* the second request fetches the other one only
C26_Witness ==
  /\ Len(history) = 2
  /\ Responded
  /\ Len(history[1].tokens) = 2
  /\ history[1].jobs = 2
  /\ Cardinality(DOMAIN Val(history[1].body).prices) = 1
  /\ history[2].jobs = 1

(***************************************************************************)
(* C27: the provenance of an FX rate is truthful.  In every result of      *)
(* getCurrentFXRates a rate whose source is "openexchangerates" or         *)
(* "exchangerate-api" has the value that this provider's response gave     *)
(* for its currency, and a rate whose value is read from FALLBACK_RATES    *)
(* has the source "fallback".                                              *)
(***************************************************************************)
Providers == {"openexchangerates", "exchangerate-api"}

\* the call c handed a table that holds `rate` for `currency`
GaveRate(c, currency, rate) ==
  /\ ~IsNull(c.rates)
  /\ currency \in DOMAIN Val(c.rates)
  /\ Val(c.rates)[currency] = rate

C27_ProvenanceTruthful ==
  \A n \in FxGets :
    LET h == fxHistory[n] IN
      (~IsError(h.body) /\ h.body.source = "api") =>
        \A k \in DOMAIN h.body.rates :
          LET r == h.body.rates[k] IN
            r.source \in Providers =>
              \E j \in DOMAIN h.calls :
                /\ h.calls[j].provider = r.source
                /\ GaveRate(h.calls[j], r.targetCurrency, r.rate)

(***************************************************************************)
(* C28: whatever POST /api/fx-rates/historical requests came before, the   *)
(* rates answered for a request {timestamp, currencies} hold a rate for    *)
(* every currency the request asks for, also when an earlier request for   *)
(* the same calendar date asked for another currency list.                 *)
(***************************************************************************)
\* the rates list holds a rate for the currency
HasRateFor(rates, currency) ==
  \E k \in DOMAIN rates : rates[k].targetCurrency = currency

C28_EveryRequestedCurrency ==
  \A n \in FxPosts :
    LET h == fxHistory[n] IN
      ~IsError(h.body) =>
        \A e \in DOMAIN h.request :
          LET date == dateString(h.request[e].timestamp)
              asked == requestedCurrencies(h.request[e].currencies)
          IN /\ date \in DOMAIN h.body.rates
             /\ \A c \in DOMAIN asked :
                  HasRateFor(h.body.rates[date], asked[c])

(***************************************************************************)
(* C29: conversion commutes with aggregation.  For a target currency with  *)
(* a rate in the rate list, the summary of the converted transactions has  *)
(* the same three totals as the converted summary of the transactions,     *)
(* and every transaction with defined P&L fields, also one whose profit    *)
(* is 0, has its cost basis and its current value multiplied by the rate.  *)
(***************************************************************************)
C29_ConversionCommutes ==
  (~IsNull(pnl) /\ ~IsNull(RateOfRun)) =>
    LET r == Val(pnl)
        rate == Val(RateOfRun).rate
    IN /\ r.summaryOfConverted.totalCostBasisUsd
            = r.convertedSummary.totalCostBasisUsd
       /\ r.summaryOfConverted.totalCurrentValueUsd
            = r.convertedSummary.totalCurrentValueUsd
       /\ r.summaryOfConverted.totalProfitLossUsd
            = r.convertedSummary.totalProfitLossUsd
       /\ \A n \in Priced :
            /\ r.converted[n].costBasisUsd
                 = Some(Val(r.enriched[n].costBasisUsd) * rate)
            /\ r.converted[n].currentValueUsd
                 = Some(Val(r.enriched[n].currentValueUsd) * rate)

(***************************************************************************)
(* C30: when two overlapping POST /api/prices handlers ask for the same    *)
(* token while it is not cached, the provider is fetched at most once for  *)
(* it: the second handler starts no fetch of a key while the first         *)
(* handler's fetch of that key is in flight, and both responses carry the  *)
(* same price for the token.                                               *)
(***************************************************************************)
\* the price that the response of the instance i carries for the cache key
\* k: Null when it carries none
PriceCarried(i, k) ==
  LET prices == Val(serving[i].body).prices
      hits == {t \in CurrentTokens :
                 /\ cacheKey("current", t) = k
                 /\ responseKey("current", t) \in DOMAIN prices}
  IN IF hits = {} THEN Null
     ELSE Some(prices[responseKey("current", CHOOSE t \in hits : TRUE)])

C30_OneFetchPerToken ==
  \A i \in Procs : \A j \in Procs \ {i} :
    /\ keysInFlight(i) \cap keysInFlight(j) = {}
    /\ (serving[i].pc = "done" /\ serving[j].pc = "done") =>
         \A k \in serving[i].inFlightElsewhere :
           PriceCarried(i, k) = PriceCarried(j, k)

====
